---- MODULE Spec2Model ----
(***************************************************************************)
(* Model of the matching engine of no-techno-tempo                         *)
(* (src/rekordbox_module.py): text normalisation, the difflib similarity   *)
(* ratio and the generator find_matches_with_progress.                     *)
(*                                                                         *)
(* Strings are sequences of one-character strings.  Similarities are exact *)
(* rationals <<num, den>>; thresholds are integers in hundredths (0.7 is   *)
(* 70).  Formatted percentages are strings again ("66.7%").                *)
(***************************************************************************)
EXTENDS Integers, Sequences, FiniteSets, TLC

\* ------------------------------------------------------------------ bounds
\* longest wishlist of the exhaustive family
MaxWish == 1
\* longest wishlist of the long family
MaxLongWish == 2
\* longest catalog of the exhaustive family
MaxCat == 1
\* length of the long catalogs (LongCat - 1 and LongCat rows)
LongCat == 51
\* largest reading of the elapsed clock, in ticks
MaxElapsed == 1

\* ------------------------------------------------------- program constants
\* "if items_procesados % 50 == 0"
YieldEvery == 50
\* "elif title_sim >= 0.9 and artist_sim >= 0.5"
StrongTitleMin == 90
StrongArtistMin == 50
\* default of artist_threshold and title_threshold
DefaultThreshold == 70

\* --------------------------------------------------------------- characters
UpperChars == <<"A","B","C","D","E","F","G","H","I","J","K","L","M",
                "N","O","P","Q","R","S","T","U","V","W","X","Y","Z">>
LowerChars == <<"a","b","c","d","e","f","g","h","i","j","k","l","m",
                "n","o","p","q","r","s","t","u","v","w","x","y","z">>
DigitChars == <<"0","1","2","3","4","5","6","7","8","9">>

Range(s) == {s[k] : k \in DOMAIN s}

\* \s of the re module, on the characters of the model
IsSpace(c) == c \in {" ", "\t", "\n"}
\* \w of the re module, on the characters of the model
IsWord(c) == c \in Range(UpperChars) \cup Range(LowerChars) \cup Range(DigitChars) \cup {"_"}

\* str.lower(), one character
LowerChar(c) ==
    IF c \in Range(UpperChars)
    THEN LowerChars[CHOOSE k \in DOMAIN UpperChars : UpperChars[k] = c]
    ELSE c

\* str.lower()
lower(s) == [k \in DOMAIN s |-> LowerChar(s[k])]

RECURSIVE lstrip(_)
lstrip(s) == IF s # <<>> /\ IsSpace(Head(s)) THEN lstrip(Tail(s)) ELSE s

RECURSIVE rstrip(_)
rstrip(s) ==
    IF s # <<>> /\ IsSpace(s[Len(s)]) THEN rstrip(SubSeq(s, 1, Len(s) - 1)) ELSE s

\* str.strip()
strip(s) == rstrip(lstrip(s))

\* re.sub(r'[^\w\s]', '', text)
RECURSIVE RemoveSpecial(_)
RemoveSpecial(s) ==
    IF s = <<>> THEN <<>>
    ELSE IF IsWord(Head(s)) \/ IsSpace(Head(s))
         THEN <<Head(s)>> \o RemoveSpecial(Tail(s))
         ELSE RemoveSpecial(Tail(s))

\* re.sub(r'\s+', ' ', text)
RECURSIVE CollapseSpaces(_)
CollapseSpaces(s) ==
    IF s = <<>> THEN <<>>
    ELSE IF IsSpace(Head(s))
         THEN <<" ">> \o CollapseSpaces(lstrip(s))
         ELSE <<Head(s)>> \o CollapseSpaces(Tail(s))

\* the object None, which no string equals
None == <<"None">>

\* "if not text: return ''" covers None and the empty string
normalize_text(text) ==
    IF text = None \/ text = <<>> THEN <<>>
    ELSE CollapseSpaces(RemoveSpecial(strip(lower(text))))

\* ------------------------------------------------- difflib.SequenceMatcher
\* length of the common run of a and b that starts at a[i], b[j] and stays
\* below ahi, bhi (indices are 1-based, the upper ends exclusive)
RECURSIVE RunLen(_, _, _, _, _, _)
RunLen(a, b, i, j, ahi, bhi) ==
    IF i < ahi /\ j < bhi /\ a[i] = b[j]
    THEN 1 + RunLen(a, b, i + 1, j + 1, ahi, bhi)
    ELSE 0

\* SequenceMatcher.find_longest_match without junk (isjunk is None and the
\* automatic junk heuristic needs 200 characters): the longest block, of
\* those the one that starts earliest in a, of those the earliest in b
find_longest_match(a, b, alo, ahi, blo, bhi) ==
    LET starts == (alo .. ahi - 1) \X (blo .. bhi - 1)
        size(p) == RunLen(a, b, p[1], p[2], ahi, bhi)
        best == CHOOSE p \in starts :
                  \A q \in starts :
                     \/ size(p) > size(q)
                     \/ /\ size(p) = size(q)
                        /\ \/ p[1] < q[1]
                           \/ p[1] = q[1] /\ p[2] <= q[2]
    IN  <<best[1], best[2], size(best)>>

\* sum of the sizes of SequenceMatcher.get_matching_blocks
RECURSIVE MatchedChars(_, _, _, _, _, _)
MatchedChars(a, b, alo, ahi, blo, bhi) ==
    IF alo >= ahi \/ blo >= bhi THEN 0
    ELSE LET m == find_longest_match(a, b, alo, ahi, blo, bhi)
         IN  IF m[3] = 0 THEN 0
             ELSE m[3]
                  + MatchedChars(a, b, alo, m[1], blo, m[2])
                  + MatchedChars(a, b, m[1] + m[3], ahi, m[2] + m[3], bhi)

\* SequenceMatcher.ratio: 2.0 * matches / length, 1.0 when length is 0
ratio(a, b) ==
    IF Len(a) + Len(b) = 0 THEN <<1, 1>>
    ELSE <<2 * MatchedChars(a, b, 1, Len(a) + 1, 1, Len(b) + 1), Len(a) + Len(b)>>

similarity_score(str1, str2) == ratio(normalize_text(str1), normalize_text(str2))

\* sim >= th, th in hundredths
AtLeast(sim, th) == sim[1] * 100 >= th * sim[2]

\* ------------------------------------------------------------- formatting
RECURSIVE IntStr(_)
IntStr(n) == IF n < 10 THEN <<DigitChars[n + 1]>>
             ELSE IntStr(n \div 10) \o <<DigitChars[(n % 10) + 1]>>

\* round(x * 1000) for x = n / d, ties to even: the tenths of a percent that
\* the format specification .1f prints for x * 100
Tenths(n, d) ==
    LET q == (1000 * n) \div d
        r == (1000 * n) % d
    IN  IF 2 * r < d THEN q
        ELSE IF 2 * r > d THEN q + 1
        ELSE IF q % 2 = 0 THEN q ELSE q + 1

\* f"{sim*100:.1f}%"
FormatPct(sim) ==
    LET t == Tenths(sim[1], sim[2])
    IN  IntStr(t \div 10) \o <<".">> \o IntStr(t % 10) \o <<"%">>

\* f"{(s1 + s2) / 2 * 100:.1f}%"
FormatMeanPct(s1, s2) ==
    FormatPct(<<s1[1] * s2[2] + s2[1] * s1[2], 2 * s1[2] * s2[2]>>)


\* ------------------------------------------------------------- data frames
\* a DataFrame is [columns |-> set of names, rows |-> sequence of rows]; a
\* row is a function from the columns to values
DataFrame(cols, rows) == [columns |-> cols, rows |-> rows]

\* DataFrame.empty: no rows or no columns
empty(df) == Len(df.rows) = 0 \/ df.columns = {}

\* row.get(key, default)
Get(row, key, default) == IF key \in DOMAIN row THEN row[key] ELSE default

\* the literal 'N/A'
NA == <<"N", "/", "A">>

\* ', '.join(list)
RECURSIVE JoinComma(_)
JoinComma(l) ==
    IF l = <<>> THEN <<>>
    ELSE IF Len(l) = 1 THEN l[1]
    ELSE l[1] \o <<",", " ">> \o JoinComma(Tail(l))

\* ------------------------------------------------------------------ state
VARIABLES
    rekordbox_df,       \* argument: the wishlist table
    discos_df,          \* argument: the catalog table
    artist_threshold,   \* argument, in hundredths
    title_threshold,    \* argument, in hundredths
    buscar_cruzado,     \* argument
    pc,                 \* position of the generator: "start", "loop", "done"
    idx_rb,             \* outer loop: index of the wishlist row
    idx_disco,          \* inner loop: index of the catalog row
    items_procesados,   \* local
    matches,            \* local: list of match dicts
    yields,             \* the stream: every tuple yielded so far
    yield_items         \* history: items_procesados at each yield of the sweep

\* a call of one of the pure text functions
VARIABLES
    text_fn,            \* the function called, "none" when there is no call
    text_args,          \* its arguments
    text_result         \* what it returned, <<>> before it returns

\* data_storage.py: the files under data/users and the clock of datetime.now()
VARIABLES
    fs,                 \* path -> file
    reloj,              \* datetime.now(), a logical clock
    ops,                \* history: the storage operations so far, with arguments
    appended            \* history: user -> the timing records appended so far

\* app.py: the "Buscar Coincidencias" handler of one session
VARIABLES
    app_pc,             \* "idle", "loop" (consuming the stream), "saved", "raised"
    tiempo_estimado,    \* local of the handler
    matches_df,         \* local of the handler
    tiempo_total,       \* local of the handler
    consumed,           \* number of tuples of the stream the for loop has taken
    runs,               \* history: how many times the handler has started
    saves               \* history: the calls of save_tiempo_busqueda of this run

\* data_storage.py called from several sessions at once
VARIABLES
    locals              \* session -> position of its call and its local 'data'

engine_vars == <<rekordbox_df, discos_df, artist_threshold, title_threshold,
                 buscar_cruzado, pc, idx_rb, idx_disco, items_procesados, matches,
                 yields, yield_items>>

text_vars == <<text_fn, text_args, text_result>>

storage_vars == <<fs, reloj, ops, appended>>

app_vars == <<app_pc, tiempo_estimado, matches_df, tiempo_total, consumed, runs,
              saves>>

session_vars == <<locals>>

vars == <<engine_vars, text_vars, storage_vars, app_vars, session_vars>>

\* what a step of the generator cannot touch
outside_engine == <<text_vars, storage_vars, app_vars, session_vars>>

args == <<rekordbox_df, discos_df, artist_threshold, title_threshold,
          buscar_cruzado>>

\* total_items = len(rekordbox_df) * len(discos_df)
total_items == Len(rekordbox_df.rows) * Len(discos_df.rows)

\* a bug: the check of the catalog columns left out
InvalidInput_noCatalogColumns ==
    \/ empty(rekordbox_df) \/ empty(discos_df)
    \/ "artista" \notin rekordbox_df.columns \/ "titulo" \notin rekordbox_df.columns

\* the guards of the three early returns
InvalidInput ==
    \/ empty(rekordbox_df) \/ empty(discos_df)
    \/ "artista" \notin rekordbox_df.columns \/ "titulo" \notin rekordbox_df.columns
    \/ "artista" \notin discos_df.columns \/ "titulo" \notin discos_df.columns

\* str(row.get(key, '')).strip()
Field(row, key) == strip(Get(row, key, <<>>))

rekordbox_row == rekordbox_df.rows[idx_rb]
disco_row == discos_df.rows[idx_disco]
rekordbox_artist == Field(rekordbox_row, "artista")
rekordbox_title == Field(rekordbox_row, "titulo")
disco_artist == Field(disco_row, "artista")
disco_title == Field(disco_row, "titulo")

\* "if not artist and not title": the row is skipped
BlankRow(row) == Field(row, "artista") = <<>> /\ Field(row, "titulo") = <<>>

Unknown == <<"u","n","k","n","o","w","n">>
Desconocido == <<"d","e","s","c","o","n","o","c","i","d","o">>

\* a bug: the sentinels compared without lower()
search_by_title_only_caseSensitive(artist) ==
    artist = <<>> \/ artist \in {Unknown, Desconocido, <<>>}

\* "not rekordbox_artist or rekordbox_artist.lower() in [...]"
search_by_title_only(artist) ==
    artist = <<>> \/ lower(artist) \in {Unknown, Desconocido, <<>>}

\* the fields every match dict takes from the pair ('estilos' is a list in
\* the rows of the model)
MatchBase(rb_artist, rb_title, d_row) ==
    [artista_rekordbox |-> rb_artist,
     titulo_rekordbox  |-> rb_title,
     artista_disco     |-> Field(d_row, "artista"),
     titulo_disco      |-> Field(d_row, "titulo"),
     precio            |-> Get(d_row, "precio", NA),
     estilos           |-> JoinComma(Get(d_row, "estilos", <<>>))]

WithScores(base, sim_artista, sim_titulo, sim_total, tipo) ==
    [k \in DOMAIN base \cup {"similitud_artista", "similitud_titulo",
                             "similitud_total", "tipo_match"} |->
        CASE k = "similitud_artista" -> sim_artista
          [] k = "similitud_titulo"  -> sim_titulo
          [] k = "similitud_total"   -> sim_total
          [] k = "tipo_match"        -> tipo
          [] OTHER                   -> base[k]]

\* a bug: the comparisons the wrong way round
NormalMatch_reversed(artist_sim, title_sim, a_th, t_th) ==
    ~AtLeast(artist_sim, a_th) /\ ~AtLeast(title_sim, t_th)

\* a bug: "or" for "and"
NormalMatch_or(artist_sim, title_sim, a_th, t_th) ==
    AtLeast(artist_sim, a_th) \/ AtLeast(title_sim, t_th)

\* "if artist_sim >= artist_threshold and title_sim >= title_threshold"
NormalMatch(artist_sim, title_sim, a_th, t_th) ==
    AtLeast(artist_sim, a_th) /\ AtLeast(title_sim, t_th)

\* a bug: the two bounds swapped
StrongMatch_swapped(artist_sim, title_sim) ==
    AtLeast(title_sim, StrongArtistMin) /\ AtLeast(artist_sim, StrongTitleMin)

\* "elif title_sim >= 0.9 and artist_sim >= 0.5"
StrongMatch(artist_sim, title_sim) ==
    AtLeast(title_sim, StrongTitleMin) /\ AtLeast(artist_sim, StrongArtistMin)

\* a bug: the title side of the crossed test left out
CrossedMatch_artistOnly(artist_rb_title_disco, title_rb_artist_disco, a_th, t_th) ==
    AtLeast(artist_rb_title_disco, a_th)

\* "if artist_rb_title_disco >= artist_threshold and
\*     title_rb_artist_disco >= title_threshold"
CrossedMatch(artist_rb_title_disco, title_rb_artist_disco, a_th, t_th) ==
    AtLeast(artist_rb_title_disco, a_th) /\ AtLeast(title_rb_artist_disco, t_th)

\* "Búsqueda normal": the matches the direct comparison of one pair appends
DirectMatches(rb_artist, rb_title, d_row, a_th, t_th) ==
    LET d_artist == Field(d_row, "artista")
        d_title == Field(d_row, "titulo")
        title_sim == similarity_score(rb_title, d_title)
        artist_sim == similarity_score(rb_artist, d_artist)
    IN  IF search_by_title_only(rb_artist)
        THEN IF AtLeast(title_sim, t_th)
             THEN <<WithScores(
                      MatchBase(IF rb_artist = <<>> THEN NA ELSE rb_artist, rb_title, d_row),
                      NA, FormatPct(title_sim), FormatPct(title_sim), "Título")>>
             ELSE <<>>
        ELSE IF NormalMatch(artist_sim, title_sim, a_th, t_th)
             THEN <<WithScores(MatchBase(rb_artist, rb_title, d_row),
                      FormatPct(artist_sim), FormatPct(title_sim),
                      FormatMeanPct(artist_sim, title_sim), "Normal")>>
        ELSE IF StrongMatch(artist_sim, title_sim)
             THEN <<WithScores(MatchBase(rb_artist, rb_title, d_row),
                      FormatPct(artist_sim), FormatPct(title_sim),
                      FormatMeanPct(artist_sim, title_sim), "Título fuerte")>>
        ELSE <<>>

\* a bug: the catalog fields compared the crossed way round
es_duplicado_swapped(ms, rb_artist, rb_title, d_artist, d_title) ==
    \E k \in DOMAIN ms :
        /\ ms[k].artista_rekordbox = rb_artist
        /\ ms[k].titulo_rekordbox = rb_title
        /\ ms[k].artista_disco = d_title
        /\ ms[k].titulo_disco = d_artist

\* a bug: only an earlier 'Cruzado' match counts as a duplicate
es_duplicado_sameType(ms, rb_artist, rb_title, d_artist, d_title) ==
    \E k \in DOMAIN ms :
        /\ ms[k].artista_rekordbox = rb_artist
        /\ ms[k].titulo_rekordbox = rb_title
        /\ ms[k].artista_disco = d_artist
        /\ ms[k].titulo_disco = d_title
        /\ ms[k].tipo_match = "Cruzado"

\* "Verificar que no sea duplicado"
es_duplicado(ms, rb_artist, rb_title, d_artist, d_title) ==
    \E k \in DOMAIN ms :
        /\ ms[k].artista_rekordbox = rb_artist
        /\ ms[k].titulo_rekordbox = rb_title
        /\ ms[k].artista_disco = d_artist
        /\ ms[k].titulo_disco = d_title

\* a bug: the crossed match appended as a 'Normal' one
CrossMatches_asNormal(ms, rb_artist, rb_title, d_row, a_th, t_th, cruzado) ==
    LET d_artist == Field(d_row, "artista")
        d_title == Field(d_row, "titulo")
        artist_rb_title_disco == similarity_score(rb_artist, d_title)
        title_rb_artist_disco == similarity_score(rb_title, d_artist)
    IN  IF /\ cruzado /\ ~search_by_title_only(rb_artist)
           /\ CrossedMatch(artist_rb_title_disco, title_rb_artist_disco, a_th, t_th)
           /\ ~es_duplicado(ms, rb_artist, rb_title, d_artist, d_title)
        THEN <<WithScores(MatchBase(rb_artist, rb_title, d_row),
                 FormatPct(artist_rb_title_disco), FormatPct(title_rb_artist_disco),
                 FormatMeanPct(artist_rb_title_disco, title_rb_artist_disco),
                 "Normal")>>
        ELSE <<>>

\* "Búsqueda cruzada": the matches the crossed comparison of one pair
\* appends to the list ms
CrossMatches(ms, rb_artist, rb_title, d_row, a_th, t_th, cruzado) ==
    LET d_artist == Field(d_row, "artista")
        d_title == Field(d_row, "titulo")
        artist_rb_title_disco == similarity_score(rb_artist, d_title)
        title_rb_artist_disco == similarity_score(rb_title, d_artist)
    IN  IF /\ cruzado /\ ~search_by_title_only(rb_artist)
           /\ CrossedMatch(artist_rb_title_disco, title_rb_artist_disco, a_th, t_th)
           /\ ~es_duplicado(ms, rb_artist, rb_title, d_artist, d_title)
        THEN <<WithScores(MatchBase(rb_artist, rb_title, d_row),
                 FormatPct(artist_rb_title_disco), FormatPct(title_rb_artist_disco),
                 FormatMeanPct(artist_rb_title_disco, title_rb_artist_disco),
                 "Cruzado")>>
        ELSE <<>>

\* "if items_procesados % 50 == 0 or items_procesados == total_items"
ShouldYield(items, total) == items % YieldEvery = 0 \/ items = total

\* a bug: the length of the catalog for the number of pairs
Progreso_perCatalog(items, total) == <<items * 100, Len(discos_df.rows)>>

\* progreso = (items_procesados / total_items) * 100, as <<num, den>>
Progreso(items, total) == <<items * 100, total>>

\* a reading of time.time() - inicio
Clock == 0 .. MaxElapsed

\* a bug: only the matches found since the previous yield
YieldTuple_delta(progreso, ms, tiempo) ==
    LET seen == IF yields = <<>> THEN 0 ELSE Len(yields[Len(yields)].matches)
    IN  [progreso |-> progreso,
         matches |-> SubSeq(ms, seen + 1, Len(ms)),
         tiempo |-> tiempo]

\* the tuple of a yield: progreso, pd.DataFrame(matches), elapsed time
YieldTuple(progreso, ms, tiempo) ==
    [progreso |-> progreso, matches |-> ms, tiempo |-> tiempo]

\* the loop variables after one more catalog row
Advance ==
    IF idx_disco < Len(discos_df.rows)
    THEN idx_rb' = idx_rb /\ idx_disco' = idx_disco + 1
    ELSE idx_rb' = idx_rb + 1 /\ idx_disco' = 1

\* ---------------------------------------------------------------- actions
\* one of the three early returns: "yield 100, pd.DataFrame(), 0; return"
EmptyResult ==
    /\ pc = "start"
    /\ InvalidInput
    /\ yields' = Append(yields, YieldTuple(<<100, 1>>, <<>>, 0))
    /\ pc' = "done"
    /\ UNCHANGED <<args, idx_rb, idx_disco, items_procesados, matches, yield_items>>
    /\ UNCHANGED outside_engine

\* total_items, items_procesados = 0, inicio = time.time(), first iteration
StartSweep ==
    /\ pc = "start"
    /\ ~InvalidInput
    /\ items_procesados' = 0
    /\ idx_rb' = 1 /\ idx_disco' = 1
    /\ pc' = "loop"
    /\ UNCHANGED <<args, matches, yields, yield_items>>
    /\ UNCHANGED outside_engine

\* a bug: a skipped wishlist row counted as one pair
SkipRekordboxRow_countsOne ==
    /\ pc = "loop"
    /\ idx_rb <= Len(rekordbox_df.rows)
    /\ BlankRow(rekordbox_row)
    /\ items_procesados' = items_procesados + 1
    /\ idx_rb' = idx_rb + 1 /\ idx_disco' = 1
    /\ UNCHANGED <<args, pc, matches, yields, yield_items>>
    /\ UNCHANGED outside_engine

\* a wishlist row without artist and title: the whole inner loop is counted
SkipRekordboxRow ==
    /\ pc = "loop"
    /\ idx_rb <= Len(rekordbox_df.rows)
    /\ BlankRow(rekordbox_row)
    /\ items_procesados' = items_procesados + Len(discos_df.rows)
    /\ idx_rb' = idx_rb + 1 /\ idx_disco' = 1
    /\ UNCHANGED <<args, pc, matches, yields, yield_items>>
    /\ UNCHANGED outside_engine

\* a catalog row without artist and title: counted, "continue"
SkipDiscoRow ==
    /\ pc = "loop"
    /\ idx_rb <= Len(rekordbox_df.rows)
    /\ ~BlankRow(rekordbox_row)
    /\ BlankRow(disco_row)
    /\ items_procesados' = items_procesados + 1
    /\ Advance
    /\ UNCHANGED <<args, pc, matches, yields, yield_items>>
    /\ UNCHANGED outside_engine

\* the body of the inner loop for one pair, up to and including its yield
ComparePair ==
    /\ pc = "loop"
    /\ idx_rb <= Len(rekordbox_df.rows)
    /\ ~BlankRow(rekordbox_row)
    /\ ~BlankRow(disco_row)
    /\ LET direct == matches \o DirectMatches(rekordbox_artist, rekordbox_title,
                        disco_row, artist_threshold, title_threshold)
           all == direct \o CrossMatches(direct, rekordbox_artist, rekordbox_title,
                        disco_row, artist_threshold, title_threshold, buscar_cruzado)
           items == items_procesados + 1
       IN  /\ matches' = all
           /\ items_procesados' = items
           /\ IF ShouldYield(items, total_items)
              THEN \E t \in Clock :
                      /\ yields' = Append(yields,
                            YieldTuple(Progreso(items, total_items), all, t))
                      /\ yield_items' = Append(yield_items, items)
              ELSE UNCHANGED <<yields, yield_items>>
    /\ Advance
    /\ UNCHANGED <<args, pc>>
    /\ UNCHANGED outside_engine

\* "Final": yield 100, pd.DataFrame(matches), tiempo_total
FinalYield ==
    /\ pc = "loop"
    /\ idx_rb > Len(rekordbox_df.rows)
    /\ \E t \in Clock :
          yields' = Append(yields, YieldTuple(<<100, 1>>, matches, t))
    /\ yield_items' = Append(yield_items, items_procesados)
    /\ pc' = "done"
    /\ UNCHANGED <<args, idx_rb, idx_disco, items_procesados, matches>>
    /\ UNCHANGED outside_engine

Next ==
    \/ EmptyResult
    \/ StartSweep
    \/ SkipRekordboxRow
    \/ SkipDiscoRow
    \/ ComparePair
    \/ FinalYield


\* ------------------------------------------------------------------ inputs
WishRow(artista, titulo) == [artista |-> artista, titulo |-> titulo]
DiscoRow(artista, titulo, precio, estilos) ==
    [artista |-> artista, titulo |-> titulo, precio |-> precio, estilos |-> estilos]

Precio == <<"1", "5", "€">>
Estilos == << <<"h">>, <<"t">> >>

\* wishlist rows: artist like title (in need of normalisation), without
\* artist, with the 'unknown' sentinel, and with a long title
WishRows ==
    { WishRow(<<"A","b"," ">>, <<"a","-","b">>),
      WishRow(<<>>, <<"a","b">>),
      WishRow(<<"U","n","k","n","o","w","n">>, <<"a","b","c">>),
      WishRow(<<"a","b">>, <<"a","b","c","d","e","f","g","h","i","j">>) }

\* catalog rows: artist like title, a weaker title, a weaker artist, without
\* artist, and a long title one character off
CatRows ==
    { DiscoRow(<<"a","b">>, <<"a","b">>, Precio, Estilos),
      DiscoRow(<<"a","b">>, <<"a","c">>, Precio, Estilos),
      DiscoRow(<<"a","c">>, <<"a","b">>, Precio, <<>>),
      DiscoRow(<<>>, <<"a","b"," ">>, NA, Estilos),
      DiscoRow(<<"a","b">>, <<"a","b","c","d","e","f","g","h","i","X">>, Precio, Estilos) }

\* the rows of the long tables: a wishlist row and a blank one; a catalog
\* row equal to the wishlist row, one with artist and title exchanged, and a
\* blank one
LongWishRows == { WishRow(<<"a","b">>, <<"c","d">>), WishRow(<<" ">>, <<>>) }
LongCatRows == { DiscoRow(<<"a","b">>, <<"c","d">>, Precio, Estilos),
                 DiscoRow(<<"c","d">>, <<"a","b">>, Precio, Estilos),
                 DiscoRow(<<>>, <<>>, Precio, Estilos) }

\* the thresholds tried, in hundredths (the sliders of app.py give 50..100)
ArtistThresholds == {50, 70}
TitleThresholds == {50, 70, 95}

SeqsUpTo(S, n) == UNION {[1 .. k -> S] : k \in 0 .. n}

\* the catalog of n rows equal to row
Repeat(row, n) == [k \in 1 .. n |-> row]

\* a row of the table that keeps only the columns cols
Restrict(row, cols) == [c \in cols \cap DOMAIN row |-> row[c]]

WishColumns == {"artista", "titulo"}
CatColumns == {"artista", "titulo", "precio", "estilos"}

InitLocals ==
    /\ pc = "start"
    /\ idx_rb = 0 /\ idx_disco = 0
    /\ items_procesados = 0
    /\ matches = <<>>
    /\ yields = <<>>
    /\ yield_items = <<>>

\* short tables of every kind of row, every threshold
InitExhaustive ==
    /\ \E rows \in SeqsUpTo(WishRows, MaxWish) :
          rekordbox_df = DataFrame(WishColumns, rows)
    /\ \E rows \in SeqsUpTo(CatRows, MaxCat) :
          discos_df = DataFrame(CatColumns, rows)
    /\ artist_threshold \in ArtistThresholds
    /\ title_threshold \in TitleThresholds
    /\ buscar_cruzado \in BOOLEAN

\* long tables, called with the default thresholds
InitLong ==
    /\ \E rows \in SeqsUpTo(LongWishRows, MaxLongWish) :
          rekordbox_df = DataFrame(WishColumns, rows)
    /\ \E row \in LongCatRows :
       \E n \in {LongCat - 1, LongCat} :
          discos_df = DataFrame(CatColumns, Repeat(row, n))
    /\ artist_threshold = DefaultThreshold
    /\ title_threshold = DefaultThreshold
    /\ buscar_cruzado \in BOOLEAN

\* tables that lack columns, called with the default thresholds
InitColumns ==
    /\ \E cols \in SUBSET WishColumns :
       \E rows \in SeqsUpTo(LongWishRows, MaxWish) :
          rekordbox_df = DataFrame(cols, [k \in DOMAIN rows |-> Restrict(rows[k], cols)])
    /\ \E cols \in {CatColumns, {"artista", "titulo"}, {"artista", "precio"},
                    {"titulo", "estilos"}, {}} :
       \E rows \in SeqsUpTo(LongCatRows, MaxCat) :
          discos_df = DataFrame(cols, [k \in DOMAIN rows |-> Restrict(rows[k], cols)])
    /\ artist_threshold = DefaultThreshold
    /\ title_threshold = DefaultThreshold
    /\ buscar_cruzado \in BOOLEAN

\* no text call, no storage, no handler: the generator on its own
NoTextCall ==
    /\ text_fn = "none" /\ text_args = <<>> /\ text_result = <<>>

NoStorage ==
    /\ fs = <<>> /\ reloj = 0 /\ ops = <<>> /\ appended = <<>>

NoHandler ==
    /\ app_pc = "idle" /\ tiempo_estimado = <<>> /\ matches_df = <<>>
    /\ tiempo_total = 0 /\ consumed = 0 /\ runs = 0 /\ saves = <<>>

NoSessions == locals = <<>>

Init ==
    /\ InitLocals /\ (InitExhaustive \/ InitLong \/ InitColumns)
    /\ NoTextCall /\ NoStorage /\ NoHandler /\ NoSessions

Spec == Init /\ [][Next]_vars

\* ------------------------------------------------- separate_artist_title
\* separators = [' - ', ' / ', ' – ', ' — ', ' | ']; the en dash and the em dash
\* are the characters written "U+2013" and "U+2014"
Separators ==
    << <<" ", "-", " ">>, <<" ", "/", " ">>, <<" ", "U+2013", " ">>,
       <<" ", "U+2014", " ">>, <<" ", "|", " ">> >>

\* the least number of a non-empty set of naturals
Min(S) == CHOOSE m \in S : \A n \in S : m <= n

\* str.find(sub) + 1: where sub first starts in s, 0 when it does not occur
Find(s, sub) ==
    LET P == {q \in 1 .. (Len(s) - Len(sub) + 1) :
                 SubSeq(s, q, q + Len(sub) - 1) = sub}
    IN  IF P = {} THEN 0 ELSE Min(P)

\* "sub in s"
Contains(s, sub) == Find(s, sub) # 0

\* a bug: s.rsplit(sep, 1), the split at the last occurrence
Split1_last(s, sep) ==
    LET P == {q \in 1 .. (Len(s) - Len(sep) + 1) :
                 SubSeq(s, q, q + Len(sep) - 1) = sep}
        last == CHOOSE m \in P : \A n \in P : n <= m
    IN  IF P = {} THEN <<s>>
        ELSE <<SubSeq(s, 1, last - 1), SubSeq(s, last + Len(sep), Len(s))>>

\* s.split(sep, 1)
Split1(s, sep) ==
    IF Contains(s, sep)
    THEN <<SubSeq(s, 1, Find(s, sep) - 1),
           SubSeq(s, Find(s, sep) + Len(sep), Len(s))>>
    ELSE <<s>>

\* s.startswith(prefix)
startswith(s, prefix) ==
    Len(prefix) <= Len(s) /\ SubSeq(s, 1, Len(prefix)) = prefix

\* s[n:]
From(s, n) == SubSeq(s, n + 1, Len(s))

\* the body of "for idx, row in df.iterrows()": the row as df.at leaves it
SeparateRow(row) ==
    LET artista == strip(Get(row, "artista", <<>>))
        titulo == strip(Get(row, "titulo", <<>>))
    IN  IF artista = <<>> /\ titulo # <<>>
        THEN LET K == {k \in DOMAIN Separators : Contains(titulo, Separators[k])}
             IN  IF K = {} THEN row
                 ELSE LET parts == Split1(titulo, Separators[Min(K)])
                      IN  [row EXCEPT !["artista"] = strip(parts[1]),
                                      !["titulo"] = strip(parts[2])]
        ELSE IF artista # <<>> /\ titulo # <<>>
        THEN IF startswith(titulo, artista)
             THEN LET titulo_clean == strip(From(titulo, Len(artista)))
                      K == {k \in DOMAIN Separators :
                               startswith(titulo_clean, Separators[k])}
                  IN  IF K = {} THEN row
                      ELSE [row EXCEPT !["titulo"] =
                              strip(From(titulo_clean, Len(Separators[Min(K)])))]
             ELSE row
        ELSE row

separate_artist_title(df) ==
    DataFrame(df.columns, [k \in DOMAIN df.rows |-> SeparateRow(df.rows[k])])

\* ------------------------------------------------- calls of the text functions
MaxText == 3
MaxTokens == 4

\* the characters of the texts normalised: a letter, an upper-case letter,
\* punctuation, the underscore, a space and a tab
TextAlphabet == {"a", "B", "-", "_", " ", "\t"}

\* the characters of the texts compared
SimAlphabet == {"a", "b", "c"}

\* the pieces a cell of the export is made of
Tokens == { <<"a">>, <<" ">>, <<" ", "-", " ">>, <<" ", "/", " ">>,
            <<" ", "U+2014", " ">> }

RECURSIVE Concat(_)
Concat(l) == IF l = <<>> THEN <<>> ELSE Head(l) \o Concat(Tail(l))

\* "values[i].strip()": the cells of parse_rekordbox_txt
Cell(pieces) == strip(Concat(pieces))

\* no run of the generator
NoEngine ==
    /\ rekordbox_df = DataFrame({}, <<>>) /\ discos_df = DataFrame({}, <<>>)
    /\ artist_threshold = DefaultThreshold /\ title_threshold = DefaultThreshold
    /\ buscar_cruzado = FALSE
    /\ pc = "done" /\ idx_rb = 0 /\ idx_disco = 0 /\ items_procesados = 0
    /\ matches = <<>> /\ yields = <<>> /\ yield_items = <<>>

InitNormalize ==
    /\ text_fn = "normalize_text"
    /\ \E text \in SeqsUpTo(TextAlphabet, MaxText) \cup {None} :
          text_args = <<text>>

InitSimilarity ==
    /\ text_fn = "similarity_score"
    /\ \E str1 \in SeqsUpTo(SimAlphabet, MaxText) :
       \E str2 \in SeqsUpTo(SimAlphabet, MaxText) :
          text_args = <<str1, str2>>

\* a table of one row, as parse_rekordbox_txt hands it over
InitSeparate ==
    /\ text_fn = "separate_artist_title"
    /\ \E artista \in {<<>>, <<"a">>} :
       \E pieces \in SeqsUpTo(Tokens, MaxTokens) :
          text_args = <<DataFrame(WishColumns, <<WishRow(artista, Cell(pieces))>>)>>

InitText ==
    /\ InitNormalize \/ InitSimilarity \/ InitSeparate
    /\ text_result = <<>>
    /\ NoEngine /\ NoStorage /\ NoHandler /\ NoSessions

\* normalize_text(text), and then normalize_text of what it returned
CallNormalize ==
    /\ text_fn = "normalize_text"
    /\ Len(text_result) < 2
    /\ text_result' = Append(text_result,
          normalize_text(IF text_result = <<>> THEN text_args[1]
                         ELSE text_result[Len(text_result)]))
    /\ UNCHANGED <<session_vars, text_fn, text_args, engine_vars, storage_vars, app_vars>>

\* similarity_score(str1, str2), and then similarity_score(str2, str1)
CallSimilarity ==
    /\ text_fn = "similarity_score"
    /\ Len(text_result) < 2
    /\ text_result' = Append(text_result,
          IF text_result = <<>>
          THEN similarity_score(text_args[1], text_args[2])
          ELSE similarity_score(text_args[2], text_args[1]))
    /\ UNCHANGED <<session_vars, text_fn, text_args, engine_vars, storage_vars, app_vars>>

\* separate_artist_title(df)
CallSeparate ==
    /\ text_fn = "separate_artist_title"
    /\ text_result = <<>>
    /\ text_result' = <<separate_artist_title(text_args[1])>>
    /\ UNCHANGED <<session_vars, text_fn, text_args, engine_vars, storage_vars, app_vars>>

NextText ==
    \/ CallNormalize
    \/ CallSimilarity
    \/ CallSeparate

SpecText == InitText /\ [][NextText]_vars


\* ------------------------------------------------------- data_storage.py
\* the users: their ids are the md5 digests of two e-mail addresses
Users == {"u1", "u2"}

\* the number of storage operations of a behaviour
MaxOps == 2

\* "Mantener solo los últimos 50 registros"
HistoryCap == 50

\* JSON null (None) and a value that is there
null == <<>>
Some(x) == <<x>>

\* a bug: one file for all the users
get_user_data_file_shared(user_id) == <<"data", "users", "no_techno_data.json">>

\* os.path.join(USERS_DIR, user_id, "no_techno_data.json")
get_user_data_file(user_id) == <<"data", "users", user_id, "no_techno_data.json">>

Paths == {get_user_data_file(u) : u \in Users}

get_default_data ==
    [discos |-> <<>>, estilos |-> <<>>, ultima_actualizacion |-> null,
     rekordbox |-> null, tiempos_busqueda |-> <<>>, spotify_credentials |-> null]

\* a file: whether it exists, whether json.load reads it, and the data in it
NoFile == [exists |-> FALSE, parses |-> FALSE, data |-> get_default_data]
File(data) == [exists |-> TRUE, parses |-> TRUE, data |-> data]

\* a bug: the data of the file whatever json.load says
load_data_unchecked(user_id) ==
    IF fs[get_user_data_file(user_id)].exists
    THEN fs[get_user_data_file(user_id)].data
    ELSE get_default_data

\* json.load(f) of the file of the user; the defaults when there is no file
\* and when json.load raises
load_data(user_id) ==
    IF fs[get_user_data_file(user_id)].exists
    THEN IF fs[get_user_data_file(user_id)].parses
         THEN fs[get_user_data_file(user_id)].data
         ELSE get_default_data
    ELSE get_default_data

\* json.dump(data, f) into the file of the user
save_data(data, user_id) ==
    fs' = [fs EXCEPT ![get_user_data_file(user_id)] = File(data)]

\* ord(c), on the characters of the model
ord(c) ==
    IF c \in Range(DigitChars)
    THEN 47 + (CHOOSE k \in DOMAIN DigitChars : DigitChars[k] = c)
    ELSE IF c \in Range(UpperChars)
    THEN 64 + (CHOOSE k \in DOMAIN UpperChars : UpperChars[k] = c)
    ELSE IF c \in Range(LowerChars)
    THEN 96 + (CHOOSE k \in DOMAIN LowerChars : LowerChars[k] = c)
    ELSE IF c = " " THEN 32
    ELSE IF c = "-" THEN 45
    ELSE IF c = "/" THEN 47
    ELSE IF c = "_" THEN 95
    ELSE 124

\* s < t for strings
RECURSIVE StrLess(_, _)
StrLess(s, t) ==
    IF t = <<>> THEN FALSE
    ELSE IF s = <<>> THEN TRUE
    ELSE IF Head(s) # Head(t) THEN ord(Head(s)) < ord(Head(t))
    ELSE StrLess(Tail(s), Tail(t))

RECURSIVE InsertSorted(_, _)
InsertSorted(x, l) ==
    IF l = <<>> THEN <<x>>
    ELSE IF StrLess(x, Head(l)) THEN <<x>> \o l
    ELSE <<Head(l)>> \o InsertSorted(x, Tail(l))

\* sorted(l) for a list of strings
RECURSIVE sorted(_)
sorted(l) ==
    IF l = <<>> THEN <<>>
    ELSE InsertSorted(l[Len(l)], sorted(SubSeq(l, 1, Len(l) - 1)))

\* sep.join(l)
RECURSIVE Join(_, _)
Join(sep, l) ==
    IF l = <<>> THEN <<>>
    ELSE IF Len(l) = 1 THEN l[1]
    ELSE l[1] \o sep \o Join(sep, Tail(l))

\* a bug: the key built without sorting the styles
EstiloKey_unsorted(estilos) == Join(<<"|">>, estilos)

\* estilo_key = "|".join(sorted(estilos))
EstiloKey(estilos) == Join(<<"|">>, sorted(estilos))

\* a bug: the first n records kept, l[:n]
KeepLast_first(l, n) == SubSeq(l, 1, n)

\* l[-n:]
KeepLast(l, n) == SubSeq(l, Len(l) - n + 1, Len(l))

\* every storage operation is logged and reads datetime.now() once
Logged(entry) ==
    /\ ops' = Append(ops, entry)
    /\ reloj' = reloj + 1

\* the entry of data["estilos"] and the disco with its metadata
EstiloInfo(estilos, discos, fecha) ==
    [estilos |-> estilos, fecha_busqueda |-> fecha, total_discos |-> Len(discos)]

Tagged(disco, estilos, fecha) ==
    ("estilos_key" :> EstiloKey(estilos)) @@ ("estilos" :> estilos)
    @@ ("fecha_busqueda" :> fecha) @@ disco

\* a bug: the discos stored before under the same key stay
DiscosAdded_keepsOld(data, estilos, discos, fecha) ==
    LET estilo_key == EstiloKey(estilos)
        info == EstiloInfo(estilos, discos, fecha)
        nuevos == [k \in DOMAIN discos |-> Tagged(discos[k], estilos, fecha)]
    IN  [data EXCEPT !.estilos = (estilo_key :> info) @@ @,
                     !.discos = data.discos \o nuevos,
                     !.ultima_actualizacion = Some(fecha)]

\* 'data' of add_discos before save_data: the entry of the style key set,
\* the discos of that key replaced, the date of the update
DiscosAdded(data, estilos, discos, fecha) ==
    LET estilo_key == EstiloKey(estilos)
        info == EstiloInfo(estilos, discos, fecha)
        kept == SelectSeq(data.discos, LAMBDA d : d.estilos_key # estilo_key)
        nuevos == [k \in DOMAIN discos |-> Tagged(discos[k], estilos, fecha)]
    IN  [data EXCEPT !.estilos = (estilo_key :> info) @@ @,
                     !.discos = kept \o nuevos,
                     !.ultima_actualizacion = Some(fecha)]

add_discos(estilos, discos, user_id) ==
    /\ save_data(DiscosAdded(load_data(user_id), estilos, discos, reloj), user_id)
    /\ Logged([name |-> "add_discos", user_id |-> user_id,
               estilos |-> estilos, discos |-> discos])
    /\ UNCHANGED appended

get_all_discos(user_id) ==
    IF load_data(user_id).discos = <<>> THEN DataFrame({}, <<>>)
    ELSE DataFrame(UNION {DOMAIN d : d \in Range(load_data(user_id).discos)},
                   load_data(user_id).discos)

get_estilos_info(user_id) == load_data(user_id).estilos

get_ultima_actualizacion(user_id) == load_data(user_id).ultima_actualizacion

save_rekordbox(df, user_id) ==
    LET data == load_data(user_id)
    IN  /\ IF ~empty(df)
           THEN save_data(("rekordbox" :> Some(df.rows))
                          @@ ("rekordbox_fecha" :> Some(reloj)) @@ data, user_id)
           ELSE save_data(("rekordbox" :> null)
                          @@ ("rekordbox_fecha" :> null) @@ data, user_id)
        /\ Logged([name |-> "save_rekordbox", user_id |-> user_id, df |-> df])
        /\ UNCHANGED appended

get_rekordbox(user_id) ==
    IF load_data(user_id).rekordbox # null
    THEN DataFrame(UNION {DOMAIN r : r \in Range(load_data(user_id).rekordbox[1])},
                   load_data(user_id).rekordbox[1])
    ELSE DataFrame({}, <<>>)

get_rekordbox_fecha(user_id) == Get(load_data(user_id), "rekordbox_fecha", null)

clear_rekordbox(user_id) ==
    /\ save_data(("rekordbox" :> null) @@ ("rekordbox_fecha" :> null)
                 @@ load_data(user_id), user_id)
    /\ Logged([name |-> "clear_rekordbox", user_id |-> user_id])
    /\ UNCHANGED appended

\* a bug: the history written into a fresh structure
TiempoAdded_fresh(data, registro) ==
    LET tiempos == Append(data.tiempos_busqueda, registro)
    IN  [get_default_data EXCEPT !.tiempos_busqueda =
            IF Len(tiempos) > HistoryCap
            THEN KeepLast(tiempos, HistoryCap) ELSE tiempos]

\* 'data' of save_tiempo_busqueda before save_data: the record appended and
\* the last HistoryCap records kept
TiempoAdded(data, registro) ==
    LET tiempos == Append(data.tiempos_busqueda, registro)
    IN  [data EXCEPT !.tiempos_busqueda =
            IF Len(tiempos) > HistoryCap
            THEN KeepLast(tiempos, HistoryCap) ELSE tiempos]

save_tiempo_busqueda(tiempo_segundos, total, user_id) ==
    LET registro == [tiempo |-> tiempo_segundos, items |-> total, fecha |-> reloj]
    IN  /\ save_data(TiempoAdded(load_data(user_id), registro), user_id)
        /\ Logged([name |-> "save_tiempo_busqueda", user_id |-> user_id,
                   registro |-> registro])
        /\ appended' = [appended EXCEPT ![user_id] = Append(@, registro)]

\* ----- exact fractions <<numerator, denominator>>, the denominator positive
RECURSIVE GCD(_, _)
GCD(a, b) == IF b = 0 THEN a ELSE GCD(b, a % b)

Abs(n) == IF n < 0 THEN -n ELSE n

Rat(n, d) ==
    LET g == GCD(Abs(n), d) IN IF g = 0 THEN <<0, 1>> ELSE <<n \div g, d \div g>>

RatAdd(p, q) == Rat(p[1] * q[2] + q[1] * p[2], p[2] * q[2])
RatSub(p, q) == Rat(p[1] * q[2] - q[1] * p[2], p[2] * q[2])
RatMul(p, q) == Rat(p[1] * q[1], p[2] * q[2])
RatLe(p, q) == p[1] * q[2] <= q[1] * p[2]

\* ----- floats: the fractions with a significand of Mantissa bits. The
\* code's floats have 53 bits; the rounding is theirs, to the nearest value,
\* ties to the even significand.
Mantissa == 8

RECURSIVE Pow2(_)
Pow2(n) == IF n = 0 THEN 1 ELSE 2 * Pow2(n - 1)

\* the significands are the integers below Top, the normal ones from Half on
Top == Pow2(Mantissa)
Half == Pow2(Mantissa - 1)
Dyadic == { Pow2(n) : n \in 0 .. 2 * Mantissa }

\* n / d = s[1] / s[2] * 2^s[3] with Half <= s[1] / s[2] < Top
RECURSIVE Scale(_, _, _)
Scale(n, d, e) ==
    IF n >= d * Top THEN Scale(n, 2 * d, e + 1)
    ELSE IF n < d * Half THEN Scale(2 * n, d, e - 1)
    ELSE <<n, d, e>>

RoundEven(n, d) ==
    LET q == n \div d
        r == n % d
    IN  IF 2 * r < d THEN q
        ELSE IF 2 * r > d THEN q + 1
        ELSE q + (q % 2)

\* the float nearest to the fraction r: r itself when it is a float
Fl(r) ==
    IF r[1] = 0 THEN <<0, 1>>
    ELSE IF Abs(r[1]) < Top /\ r[2] \in Dyadic THEN r
    ELSE LET s == Scale(Abs(r[1]), r[2], 0)
             m == (IF r[1] < 0 THEN -1 ELSE 1) * RoundEven(s[1], s[2])
         IN  IF s[3] >= 0 THEN <<m * Pow2(s[3]), 1>> ELSE Rat(m, Pow2(-s[3]))

\* x + y, x - y, x * y, x / y of two floats
FAdd(x, y) == Fl(RatAdd(x, y))
FSub(x, y) == Fl(RatSub(x, y))
FMul(x, y) == Fl(RatMul(x, y))
FDiv(x, y) == Fl(Rat(x[1] * y[2], x[2] * y[1]))

\* sum(l): the values added from left to right, acc the sum of l[1 .. k - 1]
RECURSIVE FSumFrom(_, _, _)
FSumFrom(l, k, acc) ==
    IF k > Len(l) THEN acc
    ELSE LET next == FAdd(acc, l[k])
         IN  IF next[2] > 0 THEN FSumFrom(l, k + 1, next) ELSE acc

FSum(l) == FSumFrom(l, 1, <<0, 1>>)

\* sorted(l)[k - 1]: the k-th smallest value of the list
Kth(l, k) ==
    CHOOSE v \in Range(l) :
        /\ Cardinality({i \in DOMAIN l : ~RatLe(v, l[i])}) < k
        /\ k <= Cardinality({i \in DOMAIN l : RatLe(l[i], v)})

\* np.percentile(l, q): linear interpolation at the index (n - 1) * q / 100,
\* a + (b - a) * t below the middle of the two values and b - (b - a) * (1 - t)
\* from the middle on
percentile(l, q) ==
    LET lo == ((Len(l) - 1) * q) \div 100
        t == Rat(((Len(l) - 1) * q) % 100, 100)
        a == Kth(l, lo + 1)
        b == Kth(l, lo + 2)
    IN  IF t[1] = 0 THEN a
        ELSE IF 2 * t[1] < t[2] THEN FAdd(a, FMul(FSub(b, a), t))
        ELSE FSub(b, FMul(FSub(b, a), RatSub(<<1, 1>>, t)))

\* a bug: the records without items counted as rate 0
TiemposPorItem_all(tiempos) ==
    [k \in DOMAIN tiempos |->
        IF tiempos[k].items > 0
        THEN FDiv(<<tiempos[k].tiempo, 1>>, <<tiempos[k].items, 1>>)
        ELSE <<0, 1>>]

\* the records with items > 0, as time per item
TiemposPorItem(tiempos) ==
    LET usados == SelectSeq(tiempos, LAMBDA registro : registro.items > 0)
    IN  [k \in DOMAIN usados |->
            FDiv(<<usados[k].tiempo, 1>>, <<usados[k].items, 1>>)]

\* a bug: the fences used from five values on
SinOutliers_fromFive(l) ==
    IF Len(l) > 4
    THEN LET q1 == percentile(l, 25)
             q3 == percentile(l, 75)
             iqr == FSub(q3, q1)
             lower_bound == FSub(q1, FMul(<<3, 2>>, iqr))
             upper_bound == FAdd(q3, FMul(<<3, 2>>, iqr))
         IN  SelectSeq(l, LAMBDA t : RatLe(lower_bound, t) /\ RatLe(t, upper_bound))
    ELSE l

\* "if len(tiempos_por_item) > 3": the values out of the fences are dropped
SinOutliers(l) ==
    IF Len(l) > 3
    THEN LET q1 == percentile(l, 25)
             q3 == percentile(l, 75)
             iqr == FSub(q3, q1)
             lower_bound == FSub(q1, FMul(<<3, 2>>, iqr))
             upper_bound == FAdd(q3, FMul(<<3, 2>>, iqr))
         IN  SelectSeq(l, LAMBDA t : RatLe(lower_bound, t) /\ RatLe(t, upper_bound))
    ELSE l

\* a bug: one item more than asked for
Estimado_oneMore(tiempos, total) ==
    LET tiempos_por_item == TiemposPorItem(tiempos)
        filtrados == SinOutliers(tiempos_por_item)
    IN  IF tiempos = <<>> \/ tiempos_por_item = <<>> \/ filtrados = <<>> THEN null
        ELSE LET tiempo_promedio == FDiv(FSum(filtrados), <<Len(filtrados), 1>>)
             IN  Some(FMul(tiempo_promedio, <<total + 1, 1>>))

\* None, or the mean time per item of the history times total_items
Estimado(tiempos, total) ==
    LET tiempos_por_item == TiemposPorItem(tiempos)
        filtrados == SinOutliers(tiempos_por_item)
    IN  IF tiempos = <<>> \/ tiempos_por_item = <<>> \/ filtrados = <<>> THEN null
        ELSE LET tiempo_promedio == FDiv(FSum(filtrados), <<Len(filtrados), 1>>)
             IN  Some(FMul(tiempo_promedio, <<total, 1>>))

get_tiempo_estimado(total, user_id) ==
    Estimado(Get(load_data(user_id), "tiempos_busqueda", <<>>), total)

clear_data(user_id) ==
    /\ save_data(get_default_data, user_id)
    /\ Logged([name |-> "clear_data", user_id |-> user_id])
    /\ appended' = [appended EXCEPT ![user_id] = <<>>]

save_spotify_credentials(client_id, client_secret, redirect_uri, user_id) ==
    /\ save_data([load_data(user_id) EXCEPT !.spotify_credentials =
                    Some([client_id |-> client_id, client_secret |-> client_secret,
                          redirect_uri |-> redirect_uri, saved_at |-> reloj])],
                 user_id)
    /\ Logged([name |-> "save_spotify_credentials", user_id |-> user_id])
    /\ UNCHANGED appended

get_spotify_credentials(user_id) == load_data(user_id).spotify_credentials

clear_spotify_credentials(user_id) ==
    /\ save_data([load_data(user_id) EXCEPT !.spotify_credentials = null], user_id)
    /\ Logged([name |-> "clear_spotify_credentials", user_id |-> user_id])
    /\ UNCHANGED appended

\* ------------------------------------------- the storage operations, called
\* what the scraper returns: dicts with 'artista', 'titulo' and 'precio'
Disco(artista, titulo) == [artista |-> artista, titulo |-> titulo, precio |-> Precio]

DiscoLists ==
    { << Disco(<<"a">>, <<"b">>) >>,
      << Disco(<<"a">>, <<"b">>), Disco(<<"c">>, <<"d">>) >> }

\* the styles selected: one style, and two styles in both orders
StyleLists == { << <<"h">> >>, << <<"h">>, <<"t">> >>, << <<"t">>, <<"h">> >> }

\* the wishlists saved: none and one row
WishLists ==
    { DataFrame({}, <<>>),
      DataFrame(WishColumns, << WishRow(<<"a">>, <<"b">>) >>) }

\* the timings saved: (elapsed seconds, items)
Timings == { <<1, 2>>, <<0, 0>> }

\* the history after n searches of one pair each, one a second
History(n) == [i \in 1 .. n |-> [tiempo |-> i % 2, items |-> 1, fecha |-> i - 1]]

CanOperate == Len(ops) < MaxOps

AddDiscos ==
    /\ CanOperate
    /\ \E u \in Users : \E estilos \in StyleLists : \E discos \in DiscoLists :
          add_discos(estilos, discos, u)
    /\ UNCHANGED <<session_vars, engine_vars, text_vars, app_vars>>

SaveRekordbox ==
    /\ CanOperate
    /\ \E u \in Users : \E df \in WishLists : save_rekordbox(df, u)
    /\ UNCHANGED <<session_vars, engine_vars, text_vars, app_vars>>

ClearRekordbox ==
    /\ CanOperate
    /\ \E u \in Users : clear_rekordbox(u)
    /\ UNCHANGED <<session_vars, engine_vars, text_vars, app_vars>>

SaveTiempoBusqueda ==
    /\ CanOperate
    /\ \E u \in Users : \E t \in Timings : save_tiempo_busqueda(t[1], t[2], u)
    /\ UNCHANGED <<session_vars, engine_vars, text_vars, app_vars>>

ClearData ==
    /\ CanOperate
    /\ \E u \in Users : clear_data(u)
    /\ UNCHANGED <<session_vars, engine_vars, text_vars, app_vars>>

SaveSpotifyCredentials ==
    /\ CanOperate
    /\ \E u \in Users :
          save_spotify_credentials(<<"i">>, <<"s">>, <<"r">>, u)
    /\ UNCHANGED <<session_vars, engine_vars, text_vars, app_vars>>

ClearSpotifyCredentials ==
    /\ CanOperate
    /\ \E u \in Users : clear_spotify_credentials(u)
    /\ UNCHANGED <<session_vars, engine_vars, text_vars, app_vars>>

\* the files at the start: no file at all, or the file of u1 after 49 or 50
\* searches (the histories that the next searches fill up and overflow)
InitStorage ==
    /\ \E n \in {0, HistoryCap - 1, HistoryCap} :
          /\ fs = [p \in Paths |->
                     IF n > 0 /\ p = get_user_data_file("u1")
                     THEN File([get_default_data EXCEPT
                                   !.tiempos_busqueda = History(n)])
                     ELSE NoFile]
          /\ appended = [u \in Users |-> IF u = "u1" THEN History(n) ELSE <<>>]
          /\ reloj = n
    /\ ops = <<>>
    /\ NoEngine /\ NoTextCall /\ NoHandler /\ NoSessions

NextStorage ==
    \/ AddDiscos
    \/ SaveRekordbox
    \/ ClearRekordbox
    \/ SaveTiempoBusqueda
    \/ ClearData
    \/ SaveSpotifyCredentials
    \/ ClearSpotifyCredentials

SpecStorage == InitStorage /\ [][NextStorage]_vars

\* ----------------------------------------------- a file json cannot read
\* The file of a user is left cut short (a write interrupted half way, the
\* disk full): it exists and json.load raises on it. The data it held is kept
\* in the record to tell what was stored; load_data does not see it.
FileCutShort ==
    /\ CanOperate
    /\ \A p \in Paths : fs[p].exists => fs[p].parses
    /\ \E u \in Users :
          /\ fs[get_user_data_file(u)].exists
          /\ fs' = [fs EXCEPT ![get_user_data_file(u)].parses = FALSE]
          /\ ops' = Append(ops, [name |-> "cut short", user_id |-> u])
    /\ UNCHANGED <<reloj, appended, session_vars, engine_vars, text_vars, app_vars>>

NextCutShort == NextStorage \/ FileCutShort

SpecCutShort == InitStorage /\ [][NextCutShort]_vars

\* ------------------------------------------ app.py: "Buscar Coincidencias"
\* the user of the session, user_id = check_auth()
SessionUser == "u1"

\* the number of times the button is pressed
MaxRuns == 2

\* the wishlists stored: one row, a row and a blank row, and an export whose
\* columns are not 'artista' and 'titulo'
SearchWishLists ==
    { DataFrame(WishColumns, << WishRow(<<"a","b">>, <<"c","d">>) >>),
      DataFrame(WishColumns, << WishRow(<<"a","b">>, <<"c","d">>),
                                WishRow(<<>>, <<>>) >>),
      DataFrame({"BPM"}, << [BPM |-> <<"1">>] >>) }

\* the records scraped: the record the wishlist row matches directly, the one
\* it matches crossed, and LongCat - 1 copies of the first
SearchCatalogs ==
    { << Disco(<<"a","b">>, <<"c","d">>) >>,
      << Disco(<<"c","d">>, <<"a","b">>) >>,
      Repeat(Disco(<<"a","b">>, <<"c","d">>), LongCat - 1) }

\* the file of the user after save_rekordbox(df) and add_discos(['h'], discos)
\* at time 0 and n searches
StoredData(df, discos, n) ==
    ("rekordbox" :> Some(df.rows)) @@ ("rekordbox_fecha" :> Some(0))
    @@ [get_default_data EXCEPT
          !.discos = [k \in DOMAIN discos |-> Tagged(discos[k], << <<"h">> >>, 0)],
          !.estilos = (EstiloKey(<< <<"h">> >>)
                          :> EstiloInfo(<< <<"h">> >>, discos, 0)),
          !.ultima_actualizacion = Some(0),
          !.tiempos_busqueda = History(n)]

\* the page has loaded: rekordbox_df = get_rekordbox(user_id) and
\* all_discos_df = get_all_discos(user_id)
InitSearch ==
    /\ \E df \in SearchWishLists : \E discos \in SearchCatalogs : \E n \in {0, 4} :
          /\ Len(df.rows) = 1 \/ Len(discos) = 1
          /\ fs = [p \in Paths |->
                     IF p = get_user_data_file(SessionUser)
                     THEN File(StoredData(df, discos, n)) ELSE NoFile]
          /\ appended = [u \in Users |-> IF u = SessionUser THEN History(n) ELSE <<>>]
          /\ reloj = n
    /\ ops = <<>>
    /\ rekordbox_df = get_rekordbox(SessionUser)
    /\ discos_df = get_all_discos(SessionUser)
    /\ artist_threshold = DefaultThreshold /\ title_threshold = DefaultThreshold
    /\ buscar_cruzado = FALSE
    /\ pc = "done" /\ idx_rb = 0 /\ idx_disco = 0 /\ items_procesados = 0
    /\ matches = <<>> /\ yields = <<>> /\ yield_items = <<>>
    /\ NoTextCall /\ NoHandler /\ NoSessions

\* a bug: the list of candidates kept from the run before
NewGenerator_keepsMatches ==
    /\ pc' = "start"
    /\ idx_rb' = 0 /\ idx_disco' = 0
    /\ items_procesados' = 0
    /\ matches' = matches
    /\ yields' = <<>>
    /\ yield_items' = <<>>

\* find_matches_with_progress(...): a new generator, not yet started
NewGenerator ==
    /\ pc' = "start"
    /\ idx_rb' = 0 /\ idx_disco' = 0
    /\ items_procesados' = 0
    /\ matches' = <<>>
    /\ yields' = <<>>
    /\ yield_items' = <<>>

\* the button pressed: the sliders and the checkbox are read, the estimate is
\* computed, the locals are set and the for loop makes the generator
Buscar ==
    /\ app_pc \in {"idle", "saved", "raised"}
    /\ runs < MaxRuns
    /\ ~empty(rekordbox_df) /\ Len(rekordbox_df.rows) > 0
    /\ ~empty(discos_df)
    /\ artist_threshold' = DefaultThreshold
    /\ title_threshold' = DefaultThreshold
    /\ buscar_cruzado' \in BOOLEAN
    /\ tiempo_estimado' = get_tiempo_estimado(total_items, SessionUser)
    /\ matches_df' = <<>>
    /\ tiempo_total' = 0
    /\ NewGenerator
    /\ consumed' = 0
    /\ saves' = <<>>
    /\ runs' = runs + 1
    /\ app_pc' = "loop"
    /\ UNCHANGED <<session_vars, rekordbox_df, discos_df, text_vars, storage_vars>>

\* the generator runs when the for loop asks for the next tuple
Resumed == app_pc = "loop" /\ consumed = Len(yields)

GenEmptyResult == Resumed /\ EmptyResult
GenStartSweep == Resumed /\ StartSweep
GenSkipRekordboxRow == Resumed /\ SkipRekordboxRow
GenComparePair == Resumed /\ ComparePair
GenFinalYield == Resumed /\ FinalYield

\* a bug: the timing saved in the body of the loop
Consume_saves ==
    /\ app_pc = "loop"
    /\ consumed < Len(yields)
    /\ matches_df' = yields[consumed + 1].matches
    /\ tiempo_total' = yields[consumed + 1].tiempo
    /\ consumed' = consumed + 1
    /\ save_tiempo_busqueda(yields[consumed + 1].tiempo, total_items, SessionUser)
    /\ saves' = Append(saves, [tiempo |-> yields[consumed + 1].tiempo,
                               items |-> total_items])
    /\ UNCHANGED <<session_vars, engine_vars, text_vars, app_pc, tiempo_estimado, runs>>

\* the body of the for loop for one tuple of the stream
Consume ==
    /\ app_pc = "loop"
    /\ consumed < Len(yields)
    /\ matches_df' = yields[consumed + 1].matches
    /\ tiempo_total' = yields[consumed + 1].tiempo
    /\ consumed' = consumed + 1
    /\ UNCHANGED <<session_vars, engine_vars, text_vars, storage_vars, app_pc, tiempo_estimado,
                   runs, saves>>

\* the stream is exhausted: save_tiempo_busqueda(tiempo_total, total_items, user_id)
Save ==
    /\ Resumed
    /\ pc = "done"
    /\ save_tiempo_busqueda(tiempo_total, total_items, SessionUser)
    /\ saves' = Append(saves, [tiempo |-> tiempo_total, items |-> total_items])
    /\ app_pc' = "saved"
    /\ UNCHANGED <<session_vars, engine_vars, text_vars, tiempo_estimado, matches_df,
                   tiempo_total, consumed, runs>>

\* an exception in the try block (the import, the generator, the rendering, a
\* rerun of the script): the rest of the block, the save included, is skipped
Raise ==
    /\ app_pc = "loop"
    /\ app_pc' = "raised"
    /\ UNCHANGED <<session_vars, engine_vars, text_vars, storage_vars, tiempo_estimado,
                   matches_df, tiempo_total, consumed, runs, saves>>

NextSearch ==
    \/ Buscar
    \/ GenEmptyResult
    \/ GenStartSweep
    \/ GenSkipRekordboxRow
    \/ GenComparePair
    \/ GenFinalYield
    \/ Consume
    \/ Save
    \/ Raise

SpecSearch == InitSearch /\ [][NextSearch]_vars

\* ------------------------------------------- calls of get_tiempo_estimado
\* the longest history and the largest total_items of a call
MaxHist == 5
MaxTotal == 3

\* the searches of the history: a second per pair, a hundred seconds per
\* pair, no pair at all, half a second per pair
EstRecords == << <<1, 1>>, <<100, 1>>, <<0, 0>>, <<1, 2>> >>

\* the file of the user after the searches l, one per tick of the clock and
\* the searches of a kind one after the other
InitEstimate ==
    /\ \E l \in SeqsUpTo(DOMAIN EstRecords, MaxHist) :
          /\ \A k \in 1 .. Len(l) - 1 : l[k] <= l[k + 1]
          /\ fs = [p \in Paths |->
                     IF l # <<>> /\ p = get_user_data_file(SessionUser)
                     THEN File([get_default_data EXCEPT !.tiempos_busqueda =
                                  [k \in DOMAIN l |-> [tiempo |-> EstRecords[l[k]][1],
                                                       items |-> EstRecords[l[k]][2],
                                                       fecha |-> k - 1]]])
                     ELSE NoFile]
          /\ reloj = Len(l)
    /\ appended = [u \in Users |-> <<>>]
    /\ ops = <<>>
    /\ text_fn = "get_tiempo_estimado" /\ text_args = <<>> /\ text_result = <<>>
    /\ NoEngine /\ NoHandler /\ NoSessions

\* tiempo_estimado = get_tiempo_estimado(total_items, user_id)
CallEstimado ==
    /\ text_fn = "get_tiempo_estimado"
    /\ text_result = <<>>
    /\ \E total \in 0 .. MaxTotal :
          /\ text_args' = <<total, SessionUser>>
          /\ text_result' = <<get_tiempo_estimado(total, SessionUser)>>
    /\ UNCHANGED <<session_vars, text_fn, engine_vars, storage_vars, app_vars>>

SpecEstimate == InitEstimate /\ [][CallEstimado]_vars

\* ----------------------------------- the same user in several sessions
\* Streamlit runs the script of every session in a thread of its own; the
\* storage functions take no lock, so the load_data and the save_data of a
\* call are two steps and the steps of the sessions interleave.
MaxSessions == 2

Sessions == 1 .. MaxSessions

\* the calls of a session: a search timed, and the catalog of a style saved
SessionCalls ==
    { [name |-> "save_tiempo_busqueda", tiempo |-> 1, items |-> 2],
      [name |-> "add_discos", estilos |-> << <<"h">> >>,
       discos |-> << Disco(<<"a">>, <<"b">>) >>],
      [name |-> "add_discos", estilos |-> << <<"t">> >>,
       discos |-> << Disco(<<"c">>, <<"d">>) >>] }

\* every session is about to make one call; the user has no file yet, or a
\* file with one search in it
InitSessions ==
    /\ locals \in [Sessions -> { [pc |-> "called", call |-> c, data |-> null,
                                  fecha |-> null] : c \in SessionCalls }]
    /\ \E n \in {0, 1} :
          /\ fs = [p \in Paths |->
                     IF n > 0 /\ p = get_user_data_file(SessionUser)
                     THEN File([get_default_data EXCEPT
                                   !.tiempos_busqueda = History(n)])
                     ELSE NoFile]
          /\ appended = [u \in Users |->
                           IF u = SessionUser THEN History(n) ELSE <<>>]
          /\ reloj = n
    /\ ops = <<>>
    /\ NoEngine /\ NoTextCall /\ NoHandler

\* data = load_data(user_id), the first line of the call
LoadData(s) ==
    /\ locals[s].pc = "called"
    /\ locals' = [locals EXCEPT ![s].pc = "loaded",
                                ![s].data = Some(load_data(SessionUser))]
    /\ UNCHANGED <<engine_vars, text_vars, storage_vars, app_vars>>

\* the rest of the call: 'data' changed and save_data(data, user_id)
SaveData(s) ==
    /\ locals[s].pc = "loaded"
    /\ LET call == locals[s].call
           data == locals[s].data[1]
       IN  IF call.name = "save_tiempo_busqueda"
           THEN LET registro == [tiempo |-> call.tiempo, items |-> call.items,
                                 fecha |-> reloj]
                IN  /\ save_data(TiempoAdded(data, registro), SessionUser)
                    /\ Logged([name |-> call.name, user_id |-> SessionUser,
                               registro |-> registro])
                    /\ appended' = [appended EXCEPT ![SessionUser] =
                                       Append(@, registro)]
           ELSE /\ save_data(DiscosAdded(data, call.estilos, call.discos, reloj),
                             SessionUser)
                /\ Logged([name |-> call.name, user_id |-> SessionUser,
                           estilos |-> call.estilos, discos |-> call.discos])
                /\ UNCHANGED appended
    /\ locals' = [locals EXCEPT ![s].pc = "done", ![s].fecha = Some(reloj)]
    /\ UNCHANGED <<engine_vars, text_vars, app_vars>>

NextSessions == \E s \in Sessions : LoadData(s) \/ SaveData(s)

SpecSessions == InitSessions /\ [][NextSessions]_vars

\* ------------------------------ the same tables searched a second time
\* the list of the last yield of find_matches_with_progress as a function of
\* its arguments: the pairs from (i, j) on, in the order of the two loops
RECURSIVE Sweep(_, _, _, _, _, _, _, _)
Sweep(rb_df, d_df, a_th, t_th, cruzado, i, j, ms) ==
    IF i > Len(rb_df.rows) THEN ms
    ELSE IF j > Len(d_df.rows) THEN Sweep(rb_df, d_df, a_th, t_th, cruzado, i + 1, 1, ms)
    ELSE LET rb == rb_df.rows[i]
             d == d_df.rows[j]
             direct == ms \o DirectMatches(Field(rb, "artista"), Field(rb, "titulo"),
                                d, a_th, t_th)
         IN  IF BlankRow(rb) \/ BlankRow(d)
             THEN Sweep(rb_df, d_df, a_th, t_th, cruzado, i, j + 1, ms)
             ELSE Sweep(rb_df, d_df, a_th, t_th, cruzado, i, j + 1,
                     direct \o CrossMatches(direct, Field(rb, "artista"),
                                  Field(rb, "titulo"), d, a_th, t_th, cruzado))

FinalMatches(rb_df, d_df, a_th, t_th, cruzado) ==
    IF \/ empty(rb_df) \/ empty(d_df)
       \/ "artista" \notin rb_df.columns \/ "titulo" \notin rb_df.columns
       \/ "artista" \notin d_df.columns \/ "titulo" \notin d_df.columns
    THEN <<>>
    ELSE Sweep(rb_df, d_df, a_th, t_th, cruzado, 1, 1, <<>>)

\* wishlist rows: artist like title, without artist, with a long title
AgainWishRows ==
    { WishRow(<<"A","b"," ">>, <<"a","-","b">>),
      WishRow(<<>>, <<"a","b">>),
      WishRow(<<"a","b">>, <<"a","b","c","d","e","f","g","h","i","j">>) }

\* catalog rows, in the order of the catalog: a weaker title, artist like
\* title, and a weaker artist with a long title one character off
AgainCatRows ==
    << DiscoRow(<<"a","b">>, <<"a","c">>, Precio, Estilos),
       DiscoRow(<<"a","b">>, <<"a","b">>, Precio, Estilos),
       DiscoRow(<<"a","c">>, <<"a","b","c","d","e","f","g","h","i","X">>, Precio, Estilos) >>

\* the tables stored and the sliders of the first search
InitAgain ==
    /\ \E rows \in SeqsUpTo(AgainWishRows, MaxWish) :
          rekordbox_df = DataFrame(WishColumns, rows)
    /\ \E l \in SeqsUpTo(DOMAIN AgainCatRows, MaxCat + 1) :
          /\ \A k \in 1 .. Len(l) - 1 : l[k] < l[k + 1]
          /\ discos_df = DataFrame(CatColumns, [k \in DOMAIN l |-> AgainCatRows[l[k]]])
    /\ artist_threshold \in ArtistThresholds
    /\ title_threshold \in TitleThresholds
    /\ buscar_cruzado \in BOOLEAN
    /\ pc = "start" /\ idx_rb = 0 /\ idx_disco = 0 /\ items_procesados = 0
    /\ matches = <<>> /\ yields = <<>> /\ yield_items = <<>>
    /\ text_fn = "find_matches_with_progress"
    /\ text_args = <<>> /\ text_result = <<>>
    /\ NoStorage /\ NoHandler /\ NoSessions

\* the two searches: text_args the sliders of the second one, text_result
\* the list of the first and the list of the second
Searched(a_th, t_th, cruzado) ==
    /\ text_fn = "find_matches_with_progress"
    /\ text_result = <<>>
    /\ text_args' = <<a_th, t_th, cruzado>>
    /\ text_result' =
          << FinalMatches(rekordbox_df, discos_df, artist_threshold,
                          title_threshold, buscar_cruzado),
             FinalMatches(rekordbox_df, discos_df, a_th, t_th, cruzado) >>
    /\ UNCHANGED <<text_fn, engine_vars, storage_vars, app_vars, session_vars>>

\* the sliders moved down (or left), the checkbox as it was
SearchLower ==
    \E a_th \in ArtistThresholds : \E t_th \in TitleThresholds :
        /\ a_th <= artist_threshold /\ t_th <= title_threshold
        /\ Searched(a_th, t_th, buscar_cruzado)

\* the checkbox "Búsqueda cruzada" ticked, the sliders as they were
SearchCrossed ==
    /\ ~buscar_cruzado
    /\ Searched(artist_threshold, title_threshold, TRUE)

NextAgain == SearchLower \/ SearchCrossed

SpecAgain == InitAgain /\ [][NextAgain]_vars

\* ------------------------------------------------- vocabulary of the claims
Last(s) == s[Len(s)]

IsPrefix(s, t) == Len(s) <= Len(t) /\ SubSeq(t, 1, Len(s)) = s

\* p <= q and p = q for rationals <<num, den>> with positive denominators
RatLeq(p, q) == p[1] * q[2] <= q[1] * p[2]
RatEq(p, q) == p[1] * q[2] = q[1] * p[2]

\* the number a string of digits denotes
RECURSIVE StrInt(_)
StrInt(s) ==
    IF s = <<>> THEN 0
    ELSE 10 * StrInt(SubSeq(s, 1, Len(s) - 1))
         + ((CHOOSE k \in DOMAIN DigitChars : DigitChars[k] = s[Len(s)]) - 1)

\* the tenths of a percent a formatted percentage "66.7%" denotes
ParsePct(p) ==
    LET dot == CHOOSE k \in DOMAIN p : p[k] = "."
    IN  10 * StrInt(SubSeq(p, 1, dot - 1)) + StrInt(SubSeq(p, dot + 1, Len(p) - 1))

\* the candidates the step appends
NewMatches == SubSeq(matches', Len(matches) + 1, Len(matches'))

\* the step compares the current pair (neither row is skipped)
Compared ==
    /\ pc = "loop"
    /\ idx_rb \in DOMAIN rekordbox_df.rows
    /\ ~(rekordbox_artist = <<>> /\ rekordbox_title = <<>>)
    /\ ~(disco_artist = <<>> /\ disco_title = <<>>)
    /\ items_procesados' = items_procesados + 1

\* the current wishlist row has no artist or the unknown / desconocido sentinel
TitleOnlyRow ==
    \/ rekordbox_artist = <<>>
    \/ lower(rekordbox_artist) = Unknown
    \/ lower(rekordbox_artist) = Desconocido

\* the similarities of the current pair
ArtistSim == similarity_score(rekordbox_artist, disco_artist)
TitleSim == similarity_score(rekordbox_title, disco_title)
CrossArtistSim == similarity_score(rekordbox_artist, disco_title)
CrossTitleSim == similarity_score(rekordbox_title, disco_artist)

NormalCondition ==
    AtLeast(ArtistSim, artist_threshold) /\ AtLeast(TitleSim, title_threshold)
StrongCondition == AtLeast(TitleSim, 90) /\ AtLeast(ArtistSim, 50)
CrossedCondition ==
    AtLeast(CrossArtistSim, artist_threshold) /\ AtLeast(CrossTitleSim, title_threshold)

HasType(ms, tipo) == \E k \in DOMAIN ms : ms[k].tipo_match = tipo

Endpoints(m) ==
    <<m.artista_rekordbox, m.titulo_rekordbox, m.artista_disco, m.titulo_disco>>

\* ------------------------------------------------------------------ claims

\* C1: the progress values of successive yields are non-decreasing, each lies
\* in [0, 100], and when the generator has ended the last yield carries
\* progress exactly 100.
C1_ProgressMonotone ==
    /\ \A k \in DOMAIN yields :
          /\ RatLeq(<<0, 1>>, yields[k].progreso)
          /\ RatLeq(yields[k].progreso, <<100, 1>>)
    /\ \A k \in 1 .. Len(yields) - 1 :
          RatLeq(yields[k].progreso, yields[k + 1].progreso)
    /\ pc = "done" =>
          /\ yields # <<>>
          /\ RatEq(Last(yields).progreso, <<100, 1>>)

\* C1 witness: a finished sweep that yielded below 100 on its way
C1_Witness ==
    /\ pc = "done"
    /\ Len(yields) >= 3
    /\ ~RatEq(yields[1].progreso, <<100, 1>>)

\* C2: once a sweep over valid non-empty tables has ended, every multiple k
\* of 50 up to N*M is a counter value at which a yield was made, compared or
\* skipped pair alike, and there is a yield after the final pair.
C2_YieldAtEvery50 ==
    (pc = "done" /\ Len(rekordbox_df.rows) > 0 /\ Len(discos_df.rows) > 0
       /\ {"artista", "titulo"} \subseteq rekordbox_df.columns
       /\ {"artista", "titulo"} \subseteq discos_df.columns)
    => /\ \A k \in 1 .. total_items :
             k % 50 = 0 => k \in Range(yield_items)
       /\ total_items \in Range(yield_items)

\* C3: every yield carries the full list of candidates emitted so far: the
\* tuple a step yields holds the whole list as it is after that step, the
\* list of a yield is a prefix of the list of every later yield, and the last
\* yield of a finished run holds every candidate.
C3_Cumulative ==
    /\ [](/\ \A k \in DOMAIN yields : \A l \in DOMAIN yields :
                k <= l => IsPrefix(yields[k].matches, yields[l].matches)
          /\ \A k \in DOMAIN yields : IsPrefix(yields[k].matches, matches)
          /\ pc = "done" => Last(yields).matches = matches)
    /\ [][Len(yields') > Len(yields) => Last(yields').matches = matches']_vars

\* C3 witness: a finished run whose yields grew from a non-empty list
C3_Witness ==
    /\ pc = "done"
    /\ Len(yields) >= 2
    /\ yields[1].matches # <<>>
    /\ Len(yields[1].matches) < Len(Last(yields).matches)

\* C4: a compared pair of a wishlist row that is not title-only appends a
\* Normal candidate exactly when both similarities reach their thresholds,
\* so every Normal candidate of a tuple, when it is yielded, satisfies both
\* thresholds.
C4_NormalIffThresholds ==
    /\ [][(Compared /\ ~TitleOnlyRow) =>
             (HasType(NewMatches, "Normal") <=> NormalCondition)]_vars
    /\ [][Len(yields') > Len(yields) =>
            \A m \in Range(Last(yields').matches) :
               m.tipo_match = "Normal" =>
                  /\ AtLeast(similarity_score(m.artista_rekordbox, m.artista_disco),
                             artist_threshold)
                  /\ AtLeast(similarity_score(m.titulo_rekordbox, m.titulo_disco),
                             title_threshold)]_vars

\* C4 witness: a yield with a Normal candidate, next to a compared pair that
\* got none
C4_Witness ==
    /\ pc = "done"
    /\ HasType(Last(yields).matches, "Normal")
    /\ Len(matches) < items_procesados

\* C5: every 'Título fuerte' candidate has title similarity >= 0.9 and artist
\* similarity >= 0.5 and comes from a pair that misses the Normal condition;
\* no pair appends both a Normal and a 'Título fuerte' candidate.
C5_StrongTitle ==
    /\ [](\A n \in DOMAIN matches :
            LET m == matches[n]
                a == similarity_score(m.artista_rekordbox, m.artista_disco)
                t == similarity_score(m.titulo_rekordbox, m.titulo_disco)
            IN  m.tipo_match = "Título fuerte" =>
                  /\ AtLeast(t, 90) /\ AtLeast(a, 50)
                  /\ ~(AtLeast(a, artist_threshold) /\ AtLeast(t, title_threshold)))
    /\ [][~(HasType(NewMatches, "Normal") /\ HasType(NewMatches, "Título fuerte"))]_vars

\* C5 witness: a 'Título fuerte' candidate has been appended
C5_Witness == HasType(matches, "Título fuerte")


\* C6 as stated: every candidate, of any match type, has a recorded title
\* similarity >= title_threshold and, unless it is a title-only match, a
\* recorded artist similarity >= artist_threshold.
C6_AllAboveThresholds ==
    \A n \in DOMAIN matches :
       LET m == matches[n]
       IN  /\ ParsePct(m.similitud_titulo) >= 10 * title_threshold
           /\ m.tipo_match # "Título" =>
                 ParsePct(m.similitud_artista) >= 10 * artist_threshold

\* C6 amended: every Normal, 'Título' and 'Cruzado' candidate has a recorded
\* title similarity >= title_threshold and, unless it is a title-only match,
\* a recorded artist similarity >= artist_threshold; a 'Título fuerte'
\* candidate has a recorded title similarity >= 90% and a recorded artist
\* similarity >= 50%, whatever the thresholds are.
C6_AboveThresholdsExceptStrong ==
    \A n \in DOMAIN matches :
       LET m == matches[n]
       IN  IF m.tipo_match = "Título fuerte"
           THEN /\ ParsePct(m.similitud_titulo) >= 900
                /\ ParsePct(m.similitud_artista) >= 500
           ELSE /\ ParsePct(m.similitud_titulo) >= 10 * title_threshold
                /\ m.tipo_match # "Título" =>
                      ParsePct(m.similitud_artista) >= 10 * artist_threshold

\* C6 witness: a 'Título fuerte' candidate whose recorded title similarity is
\* below the title threshold has been appended
C6_Witness ==
    \E n \in DOMAIN matches :
       /\ matches[n].tipo_match = "Título fuerte"
       /\ ParsePct(matches[n].similitud_titulo) < 10 * title_threshold
       /\ ParsePct(matches[n].similitud_artista) >= 10 * artist_threshold

\* C7 as stated: with cross search on, a compared pair of a row that is not
\* title-only and that satisfies the Normal or the 'Título fuerte' condition
\* and the crossed condition appends both a Normal / 'Título fuerte'
\* candidate and a 'Cruzado' candidate.
C7_BothEmitted ==
    [][(Compared /\ buscar_cruzado /\ ~TitleOnlyRow
          /\ (NormalCondition \/ StrongCondition) /\ CrossedCondition)
       => /\ HasType(NewMatches, "Normal") \/ HasType(NewMatches, "Título fuerte")
          /\ HasType(NewMatches, "Cruzado")]_vars

\* C7 amended: with cross search on, a compared pair of a row that is not
\* title-only and that satisfies the Normal or the 'Título fuerte' condition
\* and the crossed condition appends exactly one candidate, the Normal /
\* 'Título fuerte' one: the 'Cruzado' candidate is dropped as a duplicate of
\* it.  A pair appends a 'Cruzado' candidate exactly when cross search is
\* on, the row is not title-only, the crossed condition holds and no
\* candidate with the same four endpoint fields is in the list, which
\* includes that the pair appended no Normal / 'Título fuerte' candidate.
C7_CrossedOnlyWithoutDirect ==
    /\ [][(Compared /\ buscar_cruzado /\ ~TitleOnlyRow
             /\ (NormalCondition \/ StrongCondition) /\ CrossedCondition)
          => /\ Len(NewMatches) = 1
             /\ NewMatches[1].tipo_match \in {"Normal", "Título fuerte"}]_vars
    /\ [][Compared =>
            (HasType(NewMatches, "Cruzado") <=>
               /\ buscar_cruzado /\ ~TitleOnlyRow /\ CrossedCondition
               /\ ~(NormalCondition \/ StrongCondition)
               /\ \A k \in DOMAIN matches :
                     Endpoints(matches[k]) # <<rekordbox_artist, rekordbox_title,
                                               disco_artist, disco_title>>)]_vars

\* C7 witness: the last candidate is a Normal / 'Título fuerte' one of a pair
\* that also satisfies the crossed condition, with cross search on
C7_Witness ==
    /\ buscar_cruzado
    /\ matches # <<>>
    /\ LET m == Last(matches)
       IN  /\ m.tipo_match \in {"Normal", "Título fuerte"}
           /\ AtLeast(similarity_score(m.artista_rekordbox, m.titulo_disco),
                      artist_threshold)
           /\ AtLeast(similarity_score(m.titulo_rekordbox, m.artista_disco),
                      title_threshold)

\* C8: no candidate appended before a 'Cruzado' candidate has the same
\* (wishlist artist, wishlist title, catalog artist, catalog title) tuple.
C8_CrossedNotDuplicate ==
    \A n \in DOMAIN matches :
       matches[n].tipo_match = "Cruzado" =>
          \A k \in 1 .. n - 1 : Endpoints(matches[k]) # Endpoints(matches[n])

\* C8 witness: a 'Cruzado' candidate was appended for the first of the equal
\* rows of a catalog and not again for the later ones
C8_Witness ==
    /\ pc = "done"
    /\ Len(discos_df.rows) >= 2
    /\ discos_df.rows[1] = discos_df.rows[2]
    /\ HasType(matches, "Cruzado")
    /\ Len(matches) < items_procesados

\* C9: a compared pair of a wishlist row whose artist is empty or the
\* unknown / desconocido sentinel appends a candidate exactly when the title
\* similarity reaches title_threshold; the candidate is a single 'Título'
\* one with artist similarity 'N/A' and total similarity equal to the title
\* similarity.
C9_TitleOnly ==
    [][(Compared /\ TitleOnlyRow) =>
          /\ NewMatches # <<>> <=> AtLeast(TitleSim, title_threshold)
          /\ Len(NewMatches) <= 1
          /\ \A k \in DOMAIN NewMatches :
                /\ NewMatches[k].tipo_match = "Título"
                /\ NewMatches[k].similitud_artista = NA
                /\ NewMatches[k].similitud_titulo = FormatPct(TitleSim)
                /\ NewMatches[k].similitud_total = NewMatches[k].similitud_titulo]_vars

\* C9 witness: with cross search on, a row with the sentinel in mixed case
\* got a 'Título' candidate against a catalog row with an artist
C9_Witness ==
    /\ buscar_cruzado
    /\ \E n \in DOMAIN matches :
          /\ matches[n].tipo_match = "Título"
          /\ matches[n].artista_rekordbox # NA
          /\ matches[n].artista_disco # <<>>
          /\ lower(matches[n].artista_rekordbox) = Unknown

\* C10: when either table is empty or lacks the 'artista' or 'titulo'
\* column the generator compares nothing, yields the single tuple
\* (100, empty, 0) and ends.
C10_InvalidInput ==
    (\/ Len(rekordbox_df.rows) = 0 \/ Len(discos_df.rows) = 0
     \/ ~({"artista", "titulo"} \subseteq rekordbox_df.columns)
     \/ ~({"artista", "titulo"} \subseteq discos_df.columns))
    => /\ pc \in {"start", "done"}
       /\ items_procesados = 0 /\ idx_rb = 0 /\ idx_disco = 0
       /\ matches = <<>>
       /\ pc = "start" => yields = <<>>
       /\ pc = "done" =>
             yields = <<[progreso |-> <<100, 1>>, matches |-> <<>>, tiempo |-> 0]>>

\* C10 witness: the generator has ended on two non-empty tables of which the
\* catalog lacks the 'titulo' column
C10_Witness ==
    /\ pc = "done"
    /\ Len(rekordbox_df.rows) > 0 /\ Len(discos_df.rows) > 0
    /\ {"artista", "titulo"} \subseteq rekordbox_df.columns
    /\ "titulo" \notin discos_df.columns
    /\ Len(yields) = 1

\* C11: every one of the N x M pairs advances the counter exactly once, compared
\* or skipped: in the sweep the counter is the number of pairs passed, a blank
\* wishlist row adds M and a blank catalog row adds 1 without any candidate, a
\* compared pair adds 1; the counter never exceeds N x M and is N x M when the
\* sweep has ended; every progress value of the sweep is counter / (N x M) x 100.
C11_CounterInv ==
    /\ items_procesados <= total_items
    /\ pc = "loop" =>
          items_procesados =
             (idx_rb - 1) * Len(discos_df.rows) + (idx_disco - 1)
    /\ (pc = "done" /\ ~InvalidInput) => items_procesados = total_items
    /\ \A k \in DOMAIN yield_items :
          RatEq(yields[k].progreso, <<yield_items[k] * 100, total_items>>)

C11_CounterStep ==
    (pc = "loop" /\ idx_rb <= Len(rekordbox_df.rows)) =>
        IF BlankRow(rekordbox_row)
        THEN /\ items_procesados' = items_procesados + Len(discos_df.rows)
             /\ matches' = matches
        ELSE IF BlankRow(disco_row)
        THEN /\ items_procesados' = items_procesados + 1
             /\ matches' = matches
        ELSE items_procesados' = items_procesados + 1

C11_CounterAccounting == []C11_CounterInv /\ [][C11_CounterStep]_vars

C11_Witness ==
    /\ pc = "done" /\ ~InvalidInput
    /\ \E i \in DOMAIN rekordbox_df.rows : BlankRow(rekordbox_df.rows[i])
    /\ Len(yield_items) >= 2
    /\ matches # <<>>
    /\ items_procesados = total_items

\* a letter or a digit: str.isalnum() on the characters of the model
IsAlnum(c) == c \in Range(UpperChars) \cup Range(LowerChars) \cup Range(DigitChars)

\* C17: normalize_text is idempotent: normalising what it returned gives the
\* same string, also for punctuation next to leading or trailing spaces.
C17_Idempotent ==
    (text_fn = "normalize_text" /\ Len(text_result) = 2) =>
        text_result[2] = text_result[1]

\* C18: what normalize_text returns has no character that is neither
\* alphanumeric nor whitespace, no upper-case letter and no run of two or more
\* whitespace characters; empty or null input gives the empty string.
C18_OutputClean ==
    (text_fn = "normalize_text" /\ text_result # <<>>) =>
        LET out == text_result[1]
        IN  /\ \A k \in DOMAIN out :
                  /\ IsAlnum(out[k]) \/ IsSpace(out[k])
                  /\ out[k] \notin Range(UpperChars)
            /\ \A k \in 1 .. (Len(out) - 1) :
                  ~(IsSpace(out[k]) /\ IsSpace(out[k + 1]))
            /\ text_args[1] \in {None, <<>>} => out = <<>>

\* C19: similarity_score is symmetric: similarity_score(a, b) equals
\* similarity_score(b, a) for all strings a and b.
C19_Symmetric ==
    (text_fn = "similarity_score" /\ Len(text_result) = 2) =>
        RatEq(text_result[1], text_result[2])

\* C20: for a row without artist whose title contains one of the separators,
\* separate_artist_title splits the title at the first occurrence of the first
\* separator of the priority list that occurs in it: the left part (trimmed)
\* becomes the artist, the right part (trimmed) the title.
C20_SplitAtFirstSeparator ==
    (text_fn = "separate_artist_title" /\ text_result # <<>>) =>
        \A k \in DOMAIN text_args[1].rows :
            LET row == text_args[1].rows[k]
                out == text_result[1].rows[k]
                titulo == row.titulo
                Occurs(sep, q) ==
                    /\ q \in 1 .. (Len(titulo) - Len(sep) + 1)
                    /\ SubSeq(titulo, q, q + Len(sep) - 1) = sep
                OccursIn(sep) == \E q \in DOMAIN titulo : Occurs(sep, q)
            IN  (row.artista = <<>> /\ \E j \in DOMAIN Separators :
                                          OccursIn(Separators[j])) =>
                \E j \in DOMAIN Separators :
                \E q \in DOMAIN titulo :
                    /\ Occurs(Separators[j], q)
                    /\ \A i \in 1 .. (j - 1) : ~OccursIn(Separators[i])
                    /\ \A r \in 1 .. (q - 1) : ~Occurs(Separators[j], r)
                    /\ out.artista = strip(SubSeq(titulo, 1, q - 1))
                    /\ out.titulo =
                          strip(SubSeq(titulo, q + Len(Separators[j]), Len(titulo)))

\* a title with ' / ' before ' - ' and a doubled space has been split
C20_Witness ==
    /\ text_fn = "separate_artist_title" /\ text_result # <<>>
    /\ text_args[1].rows[1].artista = <<>>
    /\ text_args[1].rows[1].titulo = <<"a", " ", "/", " ", " ", "-", " ", "a">>
    /\ text_result[1].rows[1].artista = <<"a", " ", "/">>
    /\ text_result[1].rows[1].titulo = <<"a">>

\* the storage operation of this step, if it is one
Operation(name, user_id) ==
    /\ Len(ops') = Len(ops) + 1
    /\ ops'[Len(ops')].name = name
    /\ ops'[Len(ops')].user_id = user_id

\* the record the scraper gave, without what add_discos wrote on it
Given(d) == [f \in DOMAIN d \ {"estilos_key", "estilos", "fecha_busqueda"} |-> d[f]]

\* the entries of a catalog: the style key and the given record of each
Entries(discos) == [k \in DOMAIN discos |-> <<discos[k].estilos_key, Given(discos[k])>>]

\* C14: after any sequence of save_tiempo_busqueda calls of one user, with no
\* clear_data in between, the stored history holds at most 50 records and is
\* exactly the last min(n, 50) of the n records appended, in their order: the
\* 51st record evicts the oldest.
C14_HistoryCapped ==
    \A u \in Users :
        LET hist == load_data(u).tiempos_busqueda
            n == Len(appended[u])
            kept == IF n < HistoryCap THEN n ELSE HistoryCap
        IN  /\ Len(hist) <= HistoryCap
            /\ hist = SubSeq(appended[u], n - kept + 1, n)

C14_Witness ==
    /\ Len(appended["u1"]) = HistoryCap + 1
    /\ Len(load_data("u1").tiempos_busqueda) = HistoryCap
    /\ load_data("u1").tiempos_busqueda[1] = appended["u1"][2]
    /\ Last(ops).name = "save_tiempo_busqueda"

\* C15: after add_discos(styles, records) the catalog is exactly the given
\* records under style_key = the sorted styles joined with '|', after every
\* previous entry of another style_key, unchanged; a second call with the same
\* records and the same styles in any order leaves the same entries.
C15_Step ==
    \A u \in Users :
        Operation("add_discos", u) =>
            LET call == ops'[Len(ops')]
                key == EstiloKey(call.estilos)
                before == load_data(u).discos
                after == load_data(u)'.discos
                kept == SelectSeq(before, LAMBDA d : d.estilos_key # key)
            IN  /\ Len(after) = Len(kept) + Len(call.discos)
                /\ SubSeq(after, 1, Len(kept)) = kept
                /\ \A k \in DOMAIN call.discos :
                      /\ after[Len(kept) + k].estilos_key = key
                      /\ Given(after[Len(kept) + k]) = call.discos[k]
                /\ (/\ ops # <<>>
                    /\ Last(ops).name = "add_discos"
                    /\ Last(ops).user_id = u
                    /\ Last(ops).discos = call.discos
                    /\ Len(Last(ops).estilos) = Len(call.estilos)
                    /\ Range(Last(ops).estilos) = Range(call.estilos))
                   => Entries(after) = Entries(before)

C15_AddDiscosReplaces == [][C15_Step]_vars

\* the same two records added twice, under the styles in both orders
C15_Witness ==
    /\ Len(ops) = 2
    /\ ops[1].name = "add_discos" /\ ops[2].name = "add_discos"
    /\ ops[1].user_id = ops[2].user_id
    /\ ops[1].discos = ops[2].discos
    /\ ops[1].estilos # ops[2].estilos
    /\ Range(ops[1].estilos) = Range(ops[2].estilos)
    /\ Len(load_data(ops[1].user_id).discos) = 2

\* what the reads of data_storage.py return for a user; the estimate, which
\* get_tiempo_estimado computes from the stored history, is compared apart
Reads(user_id) ==
    <<load_data(user_id), get_all_discos(user_id), get_estilos_info(user_id),
      get_ultima_actualizacion(user_id), get_rekordbox(user_id),
      get_rekordbox_fecha(user_id), get_spotify_credentials(user_id)>>

\* C16: a storage operation issued with user id A leaves everything the reads
\* return for any other user B as it was.
C16_Step ==
    \A a \in Users :
        (Len(ops') = Len(ops) + 1 /\ ops'[Len(ops')].user_id = a) =>
            \A b \in Users \ {a} :
                /\ Reads(b)' = Reads(b)
                /\ \E after \in {load_data(b)'} :
                      Estimado(Get(after, "tiempos_busqueda", <<>>), 1)
                         = get_tiempo_estimado(1, b)

C16_UserIsolation == [][C16_Step]_vars

\* one user has stored a catalog, then the other user has cleared their data
C16_Witness ==
    /\ Len(ops) = 2
    /\ ops[1].name = "add_discos" /\ ops[2].name = "clear_data"
    /\ ops[1].user_id # ops[2].user_id
    /\ load_data(ops[1].user_id).discos # <<>>
    /\ load_data(ops[2].user_id) = get_default_data

\* the candidates of the pairs from (i, j) on, in the order of the sweep, as a
\* function of the two tables, the two thresholds and the cross-search flag
RECURSIVE SweepFrom(_, _, _)
SweepFrom(i, j, ms) ==
    IF i > Len(rekordbox_df.rows) THEN ms
    ELSE IF j > Len(discos_df.rows) THEN SweepFrom(i + 1, 1, ms)
    ELSE LET rb == rekordbox_df.rows[i]
             d == discos_df.rows[j]
             direct == ms \o DirectMatches(Field(rb, "artista"), Field(rb, "titulo"),
                                d, artist_threshold, title_threshold)
         IN  IF BlankRow(rb) \/ BlankRow(d) THEN SweepFrom(i, j + 1, ms)
             ELSE SweepFrom(i, j + 1,
                     direct \o CrossMatches(direct, Field(rb, "artista"),
                                  Field(rb, "titulo"), d, artist_threshold,
                                  title_threshold, buscar_cruzado))

SweepResult == IF InvalidInput THEN <<>> ELSE SweepFrom(1, 1, <<>>)

\* C12: the list of candidates of a run depends only on the two tables, the two
\* thresholds and the cross-search flag: whatever the stored timing history,
\* the estimate of get_tiempo_estimado and the runs before, the list the search
\* action ends with is the one the inputs determine.
C12_DependsOnInputsOnly ==
    app_pc = "saved" => matches_df = SweepResult

\* a second run has ended with candidates; the first run found the history
\* empty (no estimate), this one found the record of the first
C12_Witness ==
    /\ app_pc = "saved" /\ runs = 2
    /\ matches_df # <<>>
    /\ tiempo_estimado # null
    /\ Len(load_data(SessionUser).tiempos_busqueda) = 2

\* C13: the search action appends exactly one timing record per completed run,
\* (elapsed time of the final yield, N x M), and only after the last tuple of
\* the stream has been consumed: none while the stream is being consumed, none
\* when the run ends with an exception.
C13_Inv ==
    /\ app_pc \in {"loop", "raised"} => saves = <<>>
    /\ app_pc = "saved" =>
          /\ pc = "done" /\ consumed = Len(yields)
          /\ saves = << [tiempo |-> Last(yields).tiempo,
                         items |-> Len(rekordbox_df.rows) * Len(discos_df.rows)] >>

C13_Step ==
    LET historial == load_data(SessionUser).tiempos_busqueda
    IN  historial' # historial =>
          /\ app_pc = "loop" /\ app_pc' = "saved"
          /\ pc = "done" /\ consumed = Len(yields)
          /\ historial' = Append(historial,
                [tiempo |-> Last(yields).tiempo,
                 items |-> Len(rekordbox_df.rows) * Len(discos_df.rows),
                 fecha |-> reloj])

C13_OneRecordPerRun == []C13_Inv /\ [][C13_Step]_vars

\* a run with a yield inside the sweep has ended and saved its record
C13_Witness ==
    /\ app_pc = "saved"
    /\ Len(yields) >= 2 /\ consumed = Len(yields)
    /\ Len(saves) = 1
    /\ Last(load_data(SessionUser).tiempos_busqueda).tiempo = Last(yields).tiempo
    /\ Last(load_data(SessionUser).tiempos_busqueda).items = total_items

\* C21: for a row whose artist and title are both non-empty and whose title
\* starts with the artist followed by a separator, separate_artist_title
\* removes the artist and the separator from the title and leaves the artist.
C21_PrefixStripped ==
    (text_fn = "separate_artist_title" /\ text_result # <<>>) =>
        \A k \in DOMAIN text_args[1].rows :
            LET row == text_args[1].rows[k]
                out == text_result[1].rows[k]
            IN  \A j \in DOMAIN Separators :
                    (/\ row.artista # <<>>
                     /\ Len(row.titulo) >= Len(row.artista) + Len(Separators[j])
                     /\ SubSeq(row.titulo, 1, Len(row.artista) + Len(Separators[j]))
                           = row.artista \o Separators[j])
                    => /\ out.artista = row.artista
                       /\ out.titulo =
                             strip(SubSeq(row.titulo,
                                     Len(row.artista) + Len(Separators[j]) + 1,
                                     Len(row.titulo)))

\* the call of get_tiempo_estimado has returned
Estimated == text_fn = "get_tiempo_estimado" /\ text_result # <<>>

\* the history the call read, and its rates elapsed / item_count
Historial == load_data(SessionUser).tiempos_busqueda
Rates ==
    LET con_items == SelectSeq(Historial, LAMBDA r : r.items > 0)
    IN  [k \in DOMAIN con_items |->
            FDiv(<<con_items[k].tiempo, 1>>, <<con_items[k].items, 1>>)]

\* the rates inside [Q1 - 1.5 IQR, Q3 + 1.5 IQR]
InsideFences(l) ==
    LET q1 == percentile(l, 25)
        q3 == percentile(l, 75)
        margin == FMul(<<3, 2>>, FSub(q3, q1))
    IN  SelectSeq(l, LAMBDA r : RatLe(FSub(q1, margin), r)
                                /\ RatLe(r, FAdd(q3, margin)))

Mean(l) == FDiv(FSum(l), <<Len(l), 1>>)

\* C22: get_tiempo_estimado takes one rate per record with item_count > 0;
\* with fewer than 4 rates it averages all of them, with 4 or more only those
\* inside [Q1 - 1.5 IQR, Q3 + 1.5 IQR], and returns the mean times the item
\* count asked for: four equal rates and one 100 times larger give the
\* estimate of the four.
C22_MeanOfInliers ==
    (Estimated /\ Rates # <<>>) =>
        LET used == IF Len(Rates) < 4 THEN Rates ELSE InsideFences(Rates)
        IN  /\ used # <<>>
            /\ text_result[1] = Some(FMul(Mean(used), <<text_args[1], 1>>))
            /\ \A r \in Range(Rates) :
                  (/\ Len(Rates) = 5
                   /\ Cardinality({k \in DOMAIN Rates : Rates[k] = r}) = 4
                   /\ \E k \in DOMAIN Rates : Rates[k] = FMul(<<100, 1>>, r))
                  => text_result[1] = Some(FMul(Mean(<<r, r, r, r>>),
                                                <<text_args[1], 1>>))

\* four searches of a second per pair and one of a hundred seconds per pair
C22_Witness ==
    /\ Estimated
    /\ Len(Rates) = 5
    /\ Cardinality({k \in DOMAIN Rates : Rates[k] = <<1, 1>>}) = 4
    /\ Cardinality({k \in DOMAIN Rates : Rates[k] = <<100, 1>>}) = 1
    /\ text_args[1] = 2
    /\ text_result[1] = Some(<<2, 1>>)

\* C23: get_tiempo_estimado returns None when the history is empty, when no
\* record has item_count > 0 or when the filter removes every rate, it returns
\* a number in every other case, and it leaves the stored history as it is.
C23_Inv ==
    Estimated =>
        LET none == \/ Historial = <<>>
                    \/ \A k \in DOMAIN Historial : ~(Historial[k].items > 0)
                    \/ (Len(Rates) >= 4 /\ InsideFences(Rates) = <<>>)
        IN  /\ none => text_result[1] = null
            /\ ~none => (Len(text_result[1]) = 1 /\ text_result[1][1][2] > 0)

C23_Step == fs' = fs

C23_NoneOrNumber == []C23_Inv /\ [][C23_Step]_vars

\* a history whose only searches had no pair: no estimate
C23_Witness ==
    /\ Estimated
    /\ Len(Historial) = 2
    /\ \A k \in DOMAIN Historial : Historial[k].items = 0
    /\ text_result[1] = null

RatDist(p, q) == IF RatLe(p, q) THEN RatSub(q, p) ELSE RatSub(p, q)

UpdatePresent(s) ==
    LET call == locals[s].call
        stored == load_data(SessionUser)
    IN  IF call.name = "save_tiempo_busqueda"
        THEN \E k \in DOMAIN stored.tiempos_busqueda :
                stored.tiempos_busqueda[k]
                   = [tiempo |-> call.tiempo, items |-> call.items,
                      fecha |-> locals[s].fecha[1]]
        ELSE /\ EstiloKey(call.estilos) \in DOMAIN stored.estilos
             /\ \A j \in DOMAIN call.discos :
                   \E k \in DOMAIN stored.discos :
                      /\ stored.discos[k].estilos_key = EstiloKey(call.estilos)
                      /\ stored.discos[k].artista = call.discos[j].artista
                      /\ stored.discos[k].titulo = call.discos[j].titulo

\* C25: when two mutations of the same user run at the same time, each a
\* load_data step and a save_data step, both updates are in the stored data
\* once both calls have finished, whatever the interleaving.
C25_NoLostUpdate ==
    (\A s \in Sessions : locals[s].pc = "done") =>
        \A s \in Sessions : UpdatePresent(s)

\* sum(info['total_discos'] for info in estilos.values()) over the keys S
RECURSIVE TotalDiscos(_, _)
TotalDiscos(estilos, S) ==
    IF S = {} THEN 0
    ELSE LET k == CHOOSE x \in S : TRUE
         IN  estilos[k].total_discos + TotalDiscos(estilos, S \ {k})

\* C26: after any sequence of add_discos and clear_data, total_discos of
\* every style key is the number of stored discos with that estilos_key, and
\* the estilos_key of every stored disco is a key of 'estilos'; so the totals
\* of the dashboard add up to the number of stored discos.
C26_TotalsMatchEntries ==
    \A u \in Users :
        LET data == load_data(u)
        IN  /\ \A k \in DOMAIN data.estilos :
                  data.estilos[k].total_discos
                     = Cardinality({j \in DOMAIN data.discos :
                                       data.discos[j].estilos_key = k})
            /\ \A j \in DOMAIN data.discos :
                  data.discos[j].estilos_key \in DOMAIN data.estilos
            /\ TotalDiscos(data.estilos, DOMAIN data.estilos) = Len(data.discos)

\* a style saved twice, the second time with fewer discos, next to nothing else
C26_Witness ==
    /\ Len(ops) = 2
    /\ ops[1].name = "add_discos" /\ ops[2].name = "add_discos"
    /\ ops[1].user_id = ops[2].user_id
    /\ EstiloKey(ops[1].estilos) = EstiloKey(ops[2].estilos)
    /\ Len(ops[1].discos) = 2 /\ Len(ops[2].discos) = 1
    /\ Len(load_data(ops[1].user_id).discos) = 1

\* the sections of the stored data of a user
Catalog(data) == data.discos
StyleMap(data) == <<data.estilos, data.ultima_actualizacion>>
Wishlist(data) == <<Get(data, "rekordbox", null), Get(data, "rekordbox_fecha", null)>>
TimingHistory(data) == data.tiempos_busqueda
Credentials(data) == data.spotify_credentials

\* C27: every mutator changes its own section only: save_tiempo_busqueda
\* leaves catalog, style map, wishlist and credentials; add_discos leaves
\* wishlist, timing history and credentials; save_rekordbox and
\* clear_rekordbox leave catalog, style map, timing history and credentials;
\* clear_data alone puts every section back to its default.
C27_Step ==
    \A u \in Users :
        \E before \in {load_data(u)} : \E after \in {load_data(u)'} :
            /\ Operation("save_tiempo_busqueda", u) =>
                  /\ Catalog(after) = Catalog(before)
                  /\ StyleMap(after) = StyleMap(before)
                  /\ Wishlist(after) = Wishlist(before)
                  /\ Credentials(after) = Credentials(before)
            /\ Operation("add_discos", u) =>
                  /\ Wishlist(after) = Wishlist(before)
                  /\ TimingHistory(after) = TimingHistory(before)
                  /\ Credentials(after) = Credentials(before)
            /\ (Operation("save_rekordbox", u) \/ Operation("clear_rekordbox", u)) =>
                  /\ Catalog(after) = Catalog(before)
                  /\ StyleMap(after) = StyleMap(before)
                  /\ TimingHistory(after) = TimingHistory(before)
                  /\ Credentials(after) = Credentials(before)
            /\ Operation("clear_data", u) =>
                  /\ after = get_default_data
                  /\ Wishlist(after) = <<null, null>>
            /\ (Operation("save_spotify_credentials", u)
                \/ Operation("clear_spotify_credentials", u)) =>
                  /\ Catalog(after) = Catalog(before)
                  /\ StyleMap(after) = StyleMap(before)
                  /\ Wishlist(after) = Wishlist(before)
                  /\ TimingHistory(after) = TimingHistory(before)

C27_OwnSectionOnly == [][C27_Step]_vars

\* a search timed after a catalog was stored: the catalog is still there
C27_Witness ==
    /\ Len(ops) = 2
    /\ ops[1].name = "add_discos" /\ ops[2].name = "save_tiempo_busqueda"
    /\ ops[1].user_id = ops[2].user_id
    /\ Len(load_data(ops[1].user_id).discos) = Len(ops[1].discos)
    /\ Len(ops[1].discos) = 2
    /\ Last(load_data(ops[1].user_id).tiempos_busqueda) = ops[2].registro

\* the file of the user exists and json.load raises on it
Unparsable(u) ==
    fs[get_user_data_file(u)].exists /\ ~fs[get_user_data_file(u)].parses

\* what the file of the user held before it was cut short
Held(u) == fs[get_user_data_file(u)].data

C30_Inv == \A u \in Users : Unparsable(u) => load_data(u) = get_default_data

C30_Step ==
    \A u \in Users :
        (/\ Unparsable(u)
         /\ Len(ops') = Len(ops) + 1
         /\ Last(ops').user_id = u) =>
            \E after \in {load_data(u)'} :
                LET call == Last(ops')
                    own == CASE call.name = "add_discos" -> {"catalog", "styles"}
                             [] call.name \in {"save_rekordbox", "clear_rekordbox"}
                                   -> {"wishlist"}
                             [] call.name = "save_tiempo_busqueda" -> {"timings"}
                             [] call.name \in {"save_spotify_credentials",
                                               "clear_spotify_credentials"}
                                   -> {"credentials"}
                             [] OTHER -> {}
                IN  /\ ~Unparsable(u)'
                    /\ "catalog" \notin own => Catalog(after) = <<>>
                    /\ "styles" \notin own => StyleMap(after) = <<<<>>, null>>
                    /\ "wishlist" \notin own => Wishlist(after) = <<null, null>>
                    /\ "timings" \notin own => TimingHistory(after) = <<>>
                    /\ "credentials" \notin own => Credentials(after) = null
                    /\ call.name = "save_tiempo_busqueda" =>
                          TimingHistory(after) = <<call.registro>>
                    /\ call.name = "add_discos" =>
                          /\ Len(Catalog(after)) = Len(call.discos)
                          /\ DOMAIN after.estilos = {EstiloKey(call.estilos)}

\* C30: load_data does not raise on a file that exists and cannot be parsed,
\* it returns the default structure; so the next mutator writes the defaults
\* with its own change, and every section stored before is gone.
C30_DefaultsOnUnparsable == []C30_Inv /\ [][C30_Step]_vars

\* fifty searches were stored, the file was cut short, a catalog was saved:
\* the history is empty
C30_Witness ==
    /\ Len(ops) = 2
    /\ ops[1].name = "cut short" /\ ops[2].name = "add_discos"
    /\ ops[1].user_id = ops[2].user_id
    /\ Len(appended[ops[1].user_id]) = HistoryCap
    /\ ~Unparsable(ops[1].user_id)
    /\ load_data(ops[1].user_id).tiempos_busqueda = <<>>
    /\ Len(load_data(ops[1].user_id).discos) = 2

\* the wishlist and catalog fields that identify a candidate
Pair(m) == <<m.artista_rekordbox, m.titulo_rekordbox, m.artista_disco, m.titulo_disco>>

\* both searches are done
SearchedTwice == text_fn = "find_matches_with_progress" /\ text_result # <<>>

\* C28: for the same tables and the same cross-search flag, lower thresholds
\* never remove a match: every (wishlist artist, wishlist title, catalog
\* artist, catalog title) of the list at the higher thresholds is in the list
\* at the lower thresholds, whatever its match type there.
C28_LowerKeepsMatches ==
    (/\ SearchedTwice
     /\ text_args[1] <= artist_threshold /\ text_args[2] <= title_threshold
     /\ text_args[3] = buscar_cruzado) =>
        \A m \in Range(text_result[1]) :
            \E n \in Range(text_result[2]) : Pair(n) = Pair(m)

\* a crossed candidate of the first search is a 'Normal' one of the second
C28_Witness ==
    /\ SearchedTwice
    /\ text_args[3] = buscar_cruzado
    /\ text_args[1] = artist_threshold /\ text_args[2] < title_threshold
    /\ \E m \in Range(text_result[1]) :
          /\ m.tipo_match = "Cruzado"
          /\ \E n \in Range(text_result[2]) :
                Pair(n) = Pair(m) /\ n.tipo_match = "Normal"
          /\ \A n \in Range(text_result[2]) :
                Pair(n) = Pair(m) => n.tipo_match = "Normal"

\* C29: for the same tables and thresholds, cross-search only adds
\* candidates: the list without it is a subsequence of the list with it, and
\* every candidate added is a 'Cruzado' one; that is, the list with it less
\* its 'Cruzado' candidates is the list without it.
C29_CrossedOnlyAdds ==
    (/\ SearchedTwice
     /\ text_args[1] = artist_threshold /\ text_args[2] = title_threshold
     /\ ~buscar_cruzado /\ text_args[3]) =>
        /\ SelectSeq(text_result[2], LAMBDA m : m.tipo_match # "Cruzado")
              = text_result[1]
        /\ Len(text_result[1]) <= Len(text_result[2])

\* a crossed candidate added in front of a direct one
C29_Witness ==
    /\ SearchedTwice
    /\ text_args[1] = artist_threshold /\ text_args[2] = title_threshold
    /\ ~buscar_cruzado /\ text_args[3]
    /\ Len(text_result[1]) >= 1
    /\ \E k \in 1 .. Len(text_result[2]) - 1 :
          /\ text_result[2][k].tipo_match = "Cruzado"
          /\ text_result[2][k + 1].tipo_match # "Cruzado"

====
